---- MODULE Spec2Model ----
(***************************************************************************)
(* Viessmann identity-and-telemetry client: token cache, token refresh,    *)
(* full authorization-code flow and equipment resolution                   *)
(* (backend/iot_data/get_iot_config.py with backend/api_auth/auth.py).     *)
(*                                                                         *)
(* One get_iot_config call is a sequence of steps that are cut at the      *)
(* blocking HTTP calls: an action runs the code from one response up to    *)
(* the next request (or up to the return / the raise).                     *)
(***************************************************************************)
EXTENDS Integers, Sequences, FiniteSets, TLC

VARIABLES
    now,          \* the latest reading of time.time(), in whole seconds
    ticks,        \* number of clock advances so far (bounded)
    file,         \* content of the token cache file
    pc,           \* position of the running get_iot_config call
    cache_path,   \* TRUE when the call has a cache path (cache enabled)
    gvt_now,      \* `now` sampled by get_valid_token (line 117)
    cached,       \* what the call loaded from the cache file
    tok,          \* the tuple get_valid_token returned to get_iot_config
    eq,           \* equipment ids resolved so far by the call
    reqs,         \* HTTP requests issued by the call, in order
    cache_io,     \* cache file reads and writes of the call
    result,       \* outcome of the call
    last_resolved \* the latest equipment resolution made with the cache
                  \* enabled, kept while the token it used is still valid

client_vars == <<now, ticks, file, pc, cache_path, gvt_now, cached,
                 tok, eq, reqs, cache_io, result, last_resolved>>

(* The file system under concurrent saves.                                 *)
VARIABLES
    dir,          \* path name -> inode number (0: no such file)
    inodes,       \* inode number -> [content, mode]
    writers,      \* each save_token_cache call: position, open inode, offset
    observed      \* what the latest read of the cache path returned

save_vars == <<dir, inodes, writers, observed>>

(* get_heating_values, called with the identity a get_iot_config call      *)
(* returned.                                                               *)
VARIABLES
    hv            \* the get_heating_values call: status, GETs issued

(* One call of a function of the client that keeps no state between       *)
(* calls, and what it returned.                                            *)
VARIABLES
    call,         \* the function and its arguments
    ret           \* what it returned or raised, and the GETs it issued

fn_vars == <<call, ret>>

(* The scheduled auto-retrieval job (src/handlers/auto_retrieval_handler.py *)
(* with src/viessmann_submit.py) and the submissions table it writes.      *)
VARIABLES
    ssm,          \* the job's parameters in the SSM parameter store
    wall,         \* wall-clock time (UTC), in whole seconds
    wall_ticks,   \* one-second clock advances so far (bounded)
    table,        \* the submissions table: the items of the configured user
    jobs          \* each invocation of lambda_handler

job_vars == <<ssm, wall, wall_ticks, table, jobs>>

----------------------------------------------------------------------------
(* Bounds of the model.                                                    *)

MaxTicks == 1

(* Program constants.                                                      *)

_TOKEN_EXPIRY_BUFFER == 300
DefaultExpiresIn == 3600

(* The clock starts here; the time that passes between two calls.          *)
Now0 == 1000
TickSteps == {1, _TOKEN_EXPIRY_BUFFER}

----------------------------------------------------------------------------
(* Python / JSON values.  One record shape for all of them, so that any    *)
(* two values can be compared.                                             *)

None == [t |-> "none", s |-> "", n |-> 0]
Absent == [t |-> "absent", s |-> "", n |-> 0]     \* key not in the dict
Str(x) == [t |-> "str", s |-> x, n |-> 0]
Num(x) == [t |-> "int", s |-> "", n |-> x]
Other == [t |-> "other", s |-> "", n |-> 0]       \* list, float, object ...
PyTrue == [t |-> "bool", s |-> "", n |-> 1]
PyFalse == [t |-> "bool", s |-> "", n |-> 0]
Float(x) == [t |-> "float", s |-> "", n |-> x]    \* the float x.0

(* dict.get(key): a missing key reads as None.                             *)
Get(v) == IF v = Absent THEN None ELSE v

(* Python truthiness of a value.                                           *)
Truthy(v) ==
    CASE v.t = "str" -> v.s # ""
      [] v.t = "int" -> v.n # 0
      [] v.t = "bool" -> v.n # 0
      [] v.t = "float" -> v.n # 0
      [] v.t = "other" -> TRUE
      [] OTHER -> FALSE

(* x or y                                                                  *)
Or(x, y) == IF Truthy(x) THEN x ELSE y

(* {k: v for k, v in save_data.items() if v is not None}                   *)
DropNone(v) == IF v = None THEN Absent ELSE v

----------------------------------------------------------------------------
(* The token cache file.                                                   *)

NoRec == [access_token |-> Absent, refresh_token |-> Absent,
          expires_at |-> Absent, installation_id |-> Absent,
          gateway_serial |-> Absent, device_id |-> Absent]

FileOf(kind, rec) == [kind |-> kind, rec |-> rec]
FileMissing == FileOf("missing", NoRec)
JsonObject(rec) == FileOf("json_object", rec)

(* load_token_cache: the record, or None; exc names an exception that the  *)
(* function does not catch.                                                *)
Loaded(rec) == [exc |-> "none", found |-> TRUE, rec |-> rec]
LoadedNone == [exc |-> "none", found |-> FALSE, rec |-> NoRec]
LoadRaised(e) == [exc |-> e, found |-> FALSE, rec |-> NoRec]

load_token_cache(f) ==
    CASE f.kind = "missing" -> LoadedNone                  \* not exists()
      [] f.kind = "unreadable" -> LoadedNone               \* OSError
      [] f.kind = "not_utf8" -> LoadRaised("UnicodeDecodeError")
      [] f.kind = "not_json" -> LoadedNone                 \* JSONDecodeError
      [] f.kind = "json_other" -> LoadedNone               \* not a dict
      [] f.kind = "json_object" ->
            IF f.rec.access_token = Absent \/ f.rec.expires_at = Absent
            THEN LoadedNone
            ELSE Loaded(f.rec)

(* save_token_cache by the only writer of the path: temp file, chmod,      *)
(* rename.  What the path holds afterwards.                                *)
save_token_cache(data) == JsonObject(data)

----------------------------------------------------------------------------
(* Exceptions.  CliError is the only one get_valid_token catches; the      *)
(* others are raised by requests (session.post / session.get are not       *)
(* wrapped) or by the interpreter.                                         *)

NetOutcomes == {"ok", "Timeout", "SSLError"}

(* A URL (the Location header, response.url): none or empty, or a URL     *)
(* whose query string is a sequence of <<key, value>> parameters.          *)
NoUrl == [set |-> FALSE, query |-> <<>>]
Url(query) == [set |-> TRUE, query |-> query]

(* A response of POST /authorize: status, the Location header, the final   *)
(* URL, and the body as a sequence of lexemes: "code=", a run of other     *)
(* characters, or one of the characters ", & and whitespace.               *)
AuthorizeResponseOf(status, location, url, text) ==
    [net |-> "ok", status |-> status, location |-> location, url |-> url,
     text |-> text]

(* The responses get_valid_token is run against.                           *)
AuthorizeResponses ==
    {AuthorizeResponseOf(st, l, NoUrl, <<>>) :
        st \in {200, 302, 400, 500},
        l \in {NoUrl, Url(<<<<"code", "code-1">>>>)}}
    \cup {AuthorizeResponseOf(400, NoUrl, Url(<<<<"code", "code-1">>>>),
                               <<>>),
           AuthorizeResponseOf(400, NoUrl, NoUrl, <<"code=", "code-1">>)}
    \cup {[net |-> "Timeout", status |-> 0, location |-> NoUrl,
           url |-> NoUrl, text |-> <<>>]}

(* The result of a search for a code: None, or the code.                   *)
NoCode == [found |-> FALSE, code |-> ""]
Code(c) == [found |-> TRUE, code |-> c]

(* _extract_code_from_url: parse_qs drops the parameters with a blank      *)
(* value; the first remaining value of "code", if any.                     *)
_extract_code_from_url(url) ==
    LET qs == SelectSeq(url.query, LAMBDA kv : kv[2] # "")
        values == SelectSeq(qs, LAMBDA kv : kv[1] = "code")
    IN  IF values # <<>> THEN Code(values[1][2]) ELSE NoCode

Stoppers == {"\"", "&", " "}

RECURSIVE Group(_, _)
(* The longest run of non-stopper lexemes of text from position i.         *)
Group(text, i) ==
    IF i > Len(text) \/ text[i] \in Stoppers THEN ""
    ELSE text[i] \o Group(text, i + 1)

(* re.search(r'code=([^"&\s]+)', body): group 1 of the leftmost match.     *)
BodyCode(text) ==
    LET starts == {i \in 1..Len(text) :
                      text[i] = "code=" /\ Group(text, i + 1) # ""}
    IN  IF starts = {} THEN NoCode
        ELSE Code(Group(text, (CHOOSE i \in starts :
                                   \A j \in starts : i <= j) + 1))

(* Faulty variant: the final URL is tried before the Location header.      *)
extract_authorization_code_UrlFirst(response) ==
    IF response.url.set /\ _extract_code_from_url(response.url).found
    THEN [exc |-> "none", code |-> _extract_code_from_url(response.url).code]
    ELSE IF /\ response.location.set
            /\ _extract_code_from_url(response.location).found
    THEN [exc |-> "none",
          code |-> _extract_code_from_url(response.location).code]
    ELSE IF BodyCode(response.text).found
    THEN [exc |-> "none", code |-> BodyCode(response.text).code]
    ELSE [exc |-> "CliError", code |-> ""]

(* extract_authorization_code: Location header, then final URL, then body; *)
(* CliError when none of them holds a code.                                *)
extract_authorization_code(response) ==
    IF response.location.set /\ _extract_code_from_url(response.location).found
    THEN [exc |-> "none",
          code |-> _extract_code_from_url(response.location).code]
    ELSE IF response.url.set /\ _extract_code_from_url(response.url).found
    THEN [exc |-> "none", code |-> _extract_code_from_url(response.url).code]
    ELSE IF BodyCode(response.text).found
    THEN [exc |-> "none", code |-> BodyCode(response.text).code]
    ELSE [exc |-> "CliError", code |-> ""]

(* Faulty variant: the code is extracted whatever the status.              *)
request_authorization_code_AnyStatus(resp) ==
    IF resp.net # "ok" THEN [exc |-> resp.net, code |-> ""]
    ELSE extract_authorization_code(resp)

(* request_authorization_code: the code, or the exception raised.          *)
request_authorization_code(resp) ==
    IF resp.net # "ok" THEN [exc |-> resp.net, code |-> ""]
    ELSE IF resp.status >= 400 THEN [exc |-> "CliError", code |-> ""]
    ELSE extract_authorization_code(resp)

(* Responses of POST /token (both grants).                                 *)
AccessTokens == {Str("AT-1")}
RefreshTokens == {Str("RT-1")}
ExpiresIns == {Num(600)}

TokenResponses ==
    [net : {"ok"}, status : {200}, json : {"object"},
     access_token : AccessTokens \cup {Absent, Str("")},
     refresh_token : RefreshTokens \cup {Absent},
     expires_in : ExpiresIns \cup {Absent}]
    \cup [net : {"ok"}, status : {400, 500}, json : {"object", "invalid"},
           access_token : {Absent}, refresh_token : {Absent},
           expires_in : {Absent}]
    \cup [net : {"ok"}, status : {200}, json : {"invalid"},
           access_token : {Absent}, refresh_token : {Absent},
           expires_in : {Absent}]
    \cup [net : {"Timeout", "SSLError"}, status : {0}, json : {"invalid"},
           access_token : {Absent}, refresh_token : {Absent},
           expires_in : {Absent}]

(* exchange_code_for_token: the access token, or the exception raised.     *)
exchange_code_for_token(resp) ==
    IF resp.net # "ok" THEN [exc |-> resp.net, token |-> None]
    ELSE IF resp.status >= 400 THEN [exc |-> "CliError", token |-> None]
    ELSE IF resp.json = "invalid" THEN [exc |-> "CliError", token |-> None]
    ELSE IF resp.json # "object"            \* payload.get on a non-dict
         THEN [exc |-> "AttributeError", token |-> None]
    ELSE IF ~Truthy(Get(resp.access_token))
         THEN [exc |-> "CliError", token |-> None]
         ELSE [exc |-> "none", token |-> Get(resp.access_token)]

(* The token response object that get_valid_token reads                    *)
(* (.access_token, .refresh_token, .expires_in).                           *)
TokenResponse(resp) ==
    [access_token |-> Get(resp.access_token),
     refresh_token |-> Get(resp.refresh_token),
     expires_in |-> Get(resp.expires_in)]

(* refresh_access_token: grant_type=refresh_token on the token endpoint,   *)
(* with the failure semantics of exchange_code_for_token.                  *)
refresh_access_token(resp) ==
    IF resp.net # "ok" THEN [exc |-> resp.net, token |-> None]
    ELSE IF resp.status >= 400 THEN [exc |-> "CliError", token |-> None]
    ELSE IF resp.json = "invalid" THEN [exc |-> "CliError", token |-> None]
    ELSE IF ~Truthy(Get(resp.access_token))
         THEN [exc |-> "CliError", token |-> None]
         ELSE [exc |-> "none", token |-> Get(resp.access_token)]

----------------------------------------------------------------------------
(* str(value) of an integer identifier.                                    *)

Digit(d) == <<"0", "1", "2", "3", "4", "5", "6", "7", "8", "9">>[d + 1]

RECURSIVE Decimal(_)
Decimal(n) == IF n < 10 THEN Digit(n) ELSE Decimal(n \div 10) \o Digit(n % 10)

ToStr(v) == IF v.t = "int"
            THEN (IF v.n < 0 THEN "-" \o Decimal(0 - v.n) ELSE Decimal(v.n))
            ELSE IF v.t = "bool"
            THEN (IF v.n = 0 THEN "False" ELSE "True")
            ELSE v.s

----------------------------------------------------------------------------
(* IoT list endpoints.                                                     *)

(* One element of a list response: a JSON object with (some of) the keys   *)
(* id and serial, or something that is not an object.                      *)
Item(id, serial) == [dict |-> TRUE, id |-> id, serial |-> serial]
NotAnObject == [dict |-> FALSE, id |-> Absent, serial |-> Absent]

BadValues == {Str(""), None, Absent, Other}

(* What each endpoint can return as its first element.                     *)
GoodItems(endpoint) ==
    CASE endpoint = "installations" ->
             {Item(Str("inst-1"), Absent), Item(Num(7), Absent)}
      [] endpoint = "gateways" -> {Item(Absent, Str("gw-1"))}
      [] OTHER -> {Item(Str("dev-1"), Absent)}

FirstItems(endpoint) ==
    GoodItems(endpoint) \cup {Item(v, v) : v \in BadValues} \cup {NotAnObject}
LaterItems == {Item(Str("eq-2"), Str("eq-2"))}

Lists(endpoint) ==
    {<<>>} \cup {<<f, l>> : f \in FirstItems(endpoint), l \in LaterItems}

(* A JSON payload: {"data": [...]}, {"data": {...}}, [...], {"data": 5},   *)
(* or any other JSON value.                                                *)
Payload(shape, list, obj) == [shape |-> shape, list |-> list, obj |-> obj]

Payloads(endpoint) ==
    {Payload("data_list", l, NotAnObject) : l \in Lists(endpoint)}
    \cup {Payload("bare_list", <<f>>, NotAnObject) : f \in GoodItems(endpoint)}
    \cup {Payload("data_object", <<>>, o) : o \in GoodItems(endpoint)}
    \cup {Payload(sh, <<>>, NotAnObject) : sh \in {"data_scalar", "scalar"}}

NoPayload == Payload("scalar", <<>>, NotAnObject)

ListResponses(endpoint) ==
    {[net |-> "ok", status |-> 200, json |-> "valid", payload |-> p] :
        p \in Payloads(endpoint)}
    \cup {[net |-> "ok", status |-> st, json |-> "valid", payload |-> NoPayload] :
        st \in {404}}
    \cup {[net |-> "ok", status |-> 200, json |-> "invalid", payload |-> NoPayload]}
    \cup {[net |-> n, status |-> 0, json |-> "invalid", payload |-> NoPayload] :
        n \in {"Timeout"}}

(* The responses to the three equipment requests.                          *)
InstallationsResponses == ListResponses("installations")
GatewaysResponses == ListResponses("gateways")
DevicesResponses == ListResponses("devices")

(* Results of the helpers: a value, or the exception raised.               *)
Ok(v) == [exc |-> "none", v |-> v]
Raises(e) == [exc |-> e, v |-> None]

(* api_get_json: status >= 400 and a non-JSON body raise CliError.         *)
api_get_json(resp) ==
    IF resp.net # "ok" THEN "raise:" \o resp.net
    ELSE IF resp.status >= 400 THEN "raise:CliError"
    ELSE IF resp.json = "invalid" THEN "raise:CliError"
    ELSE "ok"

(* Faulty variant: the items are not checked to be objects.                *)
_extract_list_NoItemCheck(payload) ==
    LET items == CASE payload.shape = "data_list" -> payload.list
                   [] payload.shape = "data_object" -> <<payload.obj>>
                   [] payload.shape = "bare_list" -> payload.list
                   [] OTHER -> <<>>
        shape_ok == payload.shape \in {"data_list", "data_object", "bare_list"}
    IN  IF ~shape_ok THEN [ok |-> FALSE, items |-> <<>>]
        ELSE [ok |-> TRUE, items |-> items]

(* _extract_list: the items, or <<"raise">> marked by ok = FALSE.          *)
_extract_list(payload) ==
    LET items == CASE payload.shape = "data_list" -> payload.list
                   [] payload.shape = "data_object" -> <<payload.obj>>
                   [] payload.shape = "bare_list" -> payload.list
                   [] OTHER -> <<>>
        shape_ok == payload.shape \in {"data_list", "data_object", "bare_list"}
    IN  IF ~shape_ok THEN [ok |-> FALSE, items |-> <<>>]
        ELSE IF \E i \in 1..Len(items) : ~items[i].dict
             THEN [ok |-> FALSE, items |-> <<>>]
             ELSE [ok |-> TRUE, items |-> items]

(* _require_first: items[0], or CliError when the list is empty.           *)
_require_first(items) ==
    IF items = <<>> THEN [ok |-> FALSE, item |-> NotAnObject]
    ELSE [ok |-> TRUE, item |-> items[1]]

(* isinstance(value, (str, int)): bool is a subclass of int.               *)
IsStrOrInt(value) == value.t \in {"str", "int", "bool"}

(* _require_key: str(obj.get(key)) for a non-empty str or an int.          *)
_require_key(obj, key) ==
    LET value == Get(IF key = "id" THEN obj.id ELSE obj.serial)
    IN  IF value = None \/ value = Str("") THEN Raises("CliError")
        ELSE IF IsStrOrInt(value) THEN Ok(Str(ToStr(value)))
        ELSE Raises("CliError")

(* The messages of the CliErrors of _require_first and _require_key.       *)
EmptyListMessage(url, what) ==
    [text |-> "list is empty", what |-> what, key |-> "", url |-> url]
MissingKeyMessage(key, url, what) ==
    [text |-> "Missing or invalid key in first item", what |-> what,
     key |-> key, url |-> url]
OtherMessage(url) ==
    [text |-> "other", what |-> "", key |-> "", url |-> url]

(* The three resolvers, from the response of their GET.                    *)
ResolveFirst(resp, key) ==
    IF api_get_json(resp) # "ok"
    THEN Raises(IF resp.net # "ok" THEN resp.net ELSE "CliError")
    ELSE LET l == _extract_list(resp.payload)
             f == _require_first(l.items)
         IN  IF ~l.ok THEN Raises("CliError")
             ELSE IF ~f.ok THEN Raises("CliError")
             ELSE _require_key(f.item, key)

(* The message of the CliError that a resolver raises.                     *)
ResolveMessage(resp, key, url, what) ==
    IF api_get_json(resp) # "ok" \/ ~_extract_list(resp.payload).ok
    THEN OtherMessage(url)
    ELSE IF ~_require_first(_extract_list(resp.payload).items).ok
    THEN EmptyListMessage(url, what)
    ELSE MissingKeyMessage(key, url, what)

get_installation_id(resp) == ResolveFirst(resp, "id")
get_gateway_serial(resp) == ResolveFirst(resp, "serial")
get_device_id(resp) == ResolveFirst(resp, "id")

(* URLs.                                                                   *)
AuthorizeUrl == <<"authorize">>
TokenUrl == <<"token">>
get_iot_installations_url == <<"installations">>
get_iot_gateways_url == <<"gateways">>
(* Faulty variant: the two ids change places in the devices URL.          *)
get_iot_devices_url_Swapped(installation_id, gateway_serial) ==
    <<"installations", gateway_serial, "gateways", installation_id, "devices">>

get_iot_devices_url(installation_id, gateway_serial) ==
    <<"installations", installation_id, "gateways", gateway_serial, "devices">>

----------------------------------------------------------------------------
(* Device features (feature_data_fetcher.py, feature_extractors.py).       *)

(* A feature path is a sequence of words joined by dots.                   *)
Words == {"heating", "temperature", "consumption", "heat", "production",
          "burners", "statistics"}
MaxPathLen == 3

RECURSIVE PathsOfLen(_)
PathsOfLen(k) ==
    IF k = 0 THEN {<<>>}
    ELSE {Append(p, w) : p \in PathsOfLen(k - 1), w \in Words}

FeaturePaths == UNION {PathsOfLen(k) : k \in 1..MaxPathLen}

(* The value of a feature's "feature" key.                                 *)
PathValue(path) == [t |-> "path", p |-> path]

(* A JSON object {"value": x}; x = Absent is an object without the key.    *)
ValueObj(x) == [t |-> "dict", value |-> x]

(* The properties object of a feature.                                     *)
Props(temperature, value, hours, starts) ==
    [t |-> "props", temperature |-> temperature, value |-> value,
     hours |-> hours, starts |-> starts, day |-> Absent]

(* The properties of a consumption feature: the day entry.                 *)
ConsumptionProps(day) ==
    [t |-> "props", temperature |-> Absent, value |-> Absent,
     hours |-> Absent, starts |-> Absent, day |-> day]

(* A JSON array.                                                           *)
ListValue(items) == [t |-> "list", items |-> items]
EmptyProps == Props(Absent, Absent, Absent, Absent)

(* One element of a feature list: a JSON object with (some of) the keys    *)
(* feature, isEnabled, properties.                                         *)
Feature(feature, isEnabled, properties) ==
    [dict |-> TRUE, feature |-> feature, isEnabled |-> isEnabled,
     properties |-> properties]

(* None where a feature is expected; in a list, an element that is not an  *)
(* object.                                                                 *)
NoFeature ==
    [dict |-> FALSE, feature |-> Absent, isEnabled |-> Absent,
     properties |-> Absent]

(* f.get("isEnabled", True) is truthy.                                     *)
IsEnabled(f) == f.isEnabled = Absent \/ Truthy(f.isEnabled)

(* What a fetch returns: a feature or None, or the exception raised, and   *)
(* the number of GETs issued.                                              *)
Fetched(f, gets) == [exc |-> "none", feature |-> f, gets |-> gets]
FetchRaised(e, gets) == [exc |-> e, feature |-> NoFeature, gets |-> gets]

(* get_device_features: one GET, then the envelope normalization.          *)
get_device_features(resp) ==
    IF api_get_json(resp) # "ok"
    THEN [exc |-> IF resp.net # "ok" THEN resp.net ELSE "CliError",
          items |-> <<>>, gets |-> 1]
    ELSE IF ~_extract_list(resp.payload).ok
         THEN [exc |-> "CliError", items |-> <<>>, gets |-> 1]
         ELSE [exc |-> "none", items |-> _extract_list(resp.payload).items,
               gets |-> 1]

(* Faulty variant: 404 is treated like the other statuses >= 400.          *)
get_single_feature_NotFoundRaises(feature_path, resp) ==
    IF resp.net # "ok" THEN FetchRaised(resp.net, 1)
    ELSE IF resp.status >= 400 THEN FetchRaised("CliError", 1)
    ELSE IF resp.json = "invalid" THEN FetchRaised("CliError", 1)
    ELSE LET l == _extract_list(resp.payload)
         IN  IF ~l.ok THEN FetchRaised("CliError", 1)
             ELSE IF l.items = <<>> THEN Fetched(NoFeature, 1)
             ELSE IF ~IsEnabled(l.items[1]) THEN Fetched(NoFeature, 1)
             ELSE Fetched(l.items[1], 1)

(* get_single_feature: one GET; 404 is None, any other status >= 400 and   *)
(* a body that is not JSON raise CliError.                                 *)
get_single_feature(feature_path, resp) ==
    IF resp.net # "ok" THEN FetchRaised(resp.net, 1)
    ELSE IF resp.status = 404 THEN Fetched(NoFeature, 1)
    ELSE IF resp.status >= 400 THEN FetchRaised("CliError", 1)
    ELSE IF resp.json = "invalid" THEN FetchRaised("CliError", 1)
    ELSE LET l == _extract_list(resp.payload)
         IN  IF ~l.ok THEN FetchRaised("CliError", 1)
             ELSE IF l.items = <<>> THEN Fetched(NoFeature, 1)
             ELSE IF ~IsEnabled(l.items[1]) THEN Fetched(NoFeature, 1)
             ELSE Fetched(l.items[1], 1)

(* features_data: None, or a list.                                         *)
NoList == [given |-> FALSE, list |-> <<>>]
ListOf(l) == [given |-> TRUE, list |-> l]

(* Faulty variant: the list is ignored and the feature is fetched.         *)
get_feature_data_AlwaysFetches(feature_path, features_data, resp) ==
    get_single_feature(feature_path, resp)

(* get_feature_data: the first element of the list with that path, or the  *)
(* single-feature GET when there is no list.                               *)
get_feature_data(feature_path, features_data, resp) ==
    IF features_data.given
    THEN LET l == features_data.list
             hits == {i \in 1..Len(l) :
                         l[i].dict /\ l[i].feature = PathValue(feature_path)}
         IN  IF hits = {} THEN Fetched(NoFeature, 0)
             ELSE LET f == l[CHOOSE i \in hits : \A j \in hits : i <= j]
                  IN  IF ~IsEnabled(f) THEN Fetched(NoFeature, 0)
                      ELSE Fetched(f, 0)
    ELSE get_single_feature(feature_path, resp)

(* pattern in feature_path, for a pattern made of whole words; a pattern   *)
(* that begins with a dot cannot match at the start of the path.           *)
Occurs(pattern, dot, feature_path) ==
    \E i \in 1..(Len(feature_path) - Len(pattern) + 1) :
        /\ dot => i > 1
        /\ \A j \in 1..Len(pattern) : feature_path[i + j - 1] = pattern[j]

(* Faulty variant: the consumption patterns are tried first.               *)
_get_extractor_ConsumptionFirst(feature_path) ==
    IF \/ Occurs(<<"consumption">>, FALSE, feature_path)
       \/ Occurs(<<"heat", "production">>, FALSE, feature_path)
    THEN "extract_consumption"
    ELSE IF Occurs(<<"temperature">>, TRUE, feature_path)
    THEN "extract_temperature"
    ELSE IF /\ Occurs(<<"burners">>, FALSE, feature_path)
            /\ Occurs(<<"statistics">>, FALSE, feature_path)
         THEN "extract_burner_statistics"
    ELSE "extract_raw_properties"

(* _get_extractor: the first pattern that matches decides.                 *)
_get_extractor(feature_path) ==
    IF Occurs(<<"temperature">>, TRUE, feature_path)
    THEN "extract_temperature"
    ELSE IF \/ Occurs(<<"consumption">>, FALSE, feature_path)
            \/ Occurs(<<"heat", "production">>, FALSE, feature_path)
         THEN "extract_consumption"
    ELSE IF /\ Occurs(<<"burners">>, FALSE, feature_path)
            /\ Occurs(<<"statistics">>, FALSE, feature_path)
         THEN "extract_burner_statistics"
    ELSE "extract_raw_properties"

(* feature.get("properties") or {}                                         *)
PropsOrEmpty(feature) ==
    IF feature.properties \in {Absent, None} THEN EmptyProps
    ELSE feature.properties

(* float(s) / int(float(s)) of a string: the number, or ValueError.        *)
MaxNumber == 30
ParseNumber(str) ==
    IF \E k \in 0..MaxNumber : Decimal(k) = str.s
    THEN Num(CHOOSE k \in 0..MaxNumber : Decimal(k) = str.s)
    ELSE None

(* isinstance(value, (int, float)): bool is a subclass of int.              *)
IsIntOrFloat(value) == value.t \in {"int", "bool", "float"}

(* float(value) of an int, a bool or a float.                              *)
ToFloat(value) == Float(value.n)

_coerce_float(value) ==
    IF value = None THEN None
    ELSE IF IsIntOrFloat(value) THEN ToFloat(value)
    ELSE IF value.t = "str"
         THEN IF ParseNumber(value) = None THEN None
              ELSE ToFloat(ParseNumber(value))
    ELSE None

_coerce_int(value) ==
    IF value = None THEN None
    ELSE IF value.t \in {"int", "bool"} THEN value
    ELSE IF value.t = "float" THEN Num(value.n)
    ELSE IF value.t = "str" THEN ParseNumber(value)
    ELSE None

_extract_scalar_from_prop(prop_value) ==
    IF prop_value = None THEN None
    ELSE IF IsIntOrFloat(prop_value) THEN ToFloat(prop_value)
    ELSE IF prop_value.t = "dict" /\ prop_value.value # Absent
         THEN _coerce_float(prop_value.value)
    ELSE None

extract_temperature(feature) ==
    LET props == PropsOrEmpty(feature)
    IN  IF props.temperature # Absent
        THEN IF props.temperature.t = "dict"
             THEN _extract_scalar_from_prop(Get(props.temperature.value))
             ELSE _coerce_float(props.temperature)
        ELSE IF props.value # Absent
             THEN _extract_scalar_from_prop(props.value)
             ELSE None

extract_consumption(feature) == PropsOrEmpty(feature)

extract_raw_properties(feature) == PropsOrEmpty(feature)

BurnerStats(betriebsstunden, starts) ==
    [t |-> "stats", betriebsstunden |-> betriebsstunden, starts |-> starts]

extract_burner_statistics(feature) ==
    LET props == PropsOrEmpty(feature)
        oh == Get(props.hours)
        st == Get(props.starts)
    IN  BurnerStats(
            IF oh = None THEN None
            ELSE _coerce_int(IF oh.t = "dict" THEN Get(oh.value) ELSE oh),
            IF st = None THEN None
            ELSE _coerce_int(IF st.t = "dict" THEN Get(st.value) ELSE st))

(* What extract_feature_value returns, and the extractor it called.        *)
Extracted(extractor, value) == [extractor |-> extractor, value |-> value]

(* Faulty variant: the extractor is called on None as on an empty feature. *)
extract_feature_value_NoNoneCheck(feature_path, feature) ==
    LET extractor == _get_extractor(feature_path)
    IN  Extracted(extractor,
            CASE extractor = "extract_temperature" ->
                     extract_temperature(feature)
              [] extractor = "extract_consumption" ->
                     extract_consumption(feature)
              [] extractor = "extract_burner_statistics" ->
                     extract_burner_statistics(feature)
              [] OTHER -> extract_raw_properties(feature))

(* extract_feature_value: None for no feature, else the extractor that     *)
(* the path selects, applied to the feature.                               *)

extract_feature_value(feature_path, feature) ==
    IF feature = NoFeature THEN Extracted("none", None)
    ELSE LET extractor == _get_extractor(feature_path)
         IN  Extracted(extractor,
                 CASE extractor = "extract_temperature" ->
                          extract_temperature(feature)
                   [] extractor = "extract_consumption" ->
                          extract_consumption(feature)
                   [] extractor = "extract_burner_statistics" ->
                          extract_burner_statistics(feature)
                   [] OTHER -> extract_raw_properties(feature))

(* get_feature_value: get_feature_data, then extract_feature_value.        *)
get_feature_value(feature_path, features_data, resp) ==
    LET fetched == get_feature_data(feature_path, features_data, resp)
    IN  IF fetched.exc # "none"
        THEN [exc |-> fetched.exc, value |-> None, gets |-> fetched.gets]
        ELSE [exc |-> "none",
              value |-> extract_feature_value(feature_path,
                                              fetched.feature).value,
              gets |-> fetched.gets]

----------------------------------------------------------------------------
(* get_valid_token, step 1: what to do with the loaded cache record.       *)

(* Faulty variant: the boundary expires_at = now + 300 counts as valid.    *)
TokenStillValid_AtBuffer(t, expires_at) ==
    t <= expires_at - _TOKEN_EXPIRY_BUFFER

(* now < (expires_at - _TOKEN_EXPIRY_BUFFER)                               *)
TokenStillValid(t, expires_at) == t < expires_at - _TOKEN_EXPIRY_BUFFER

(* "hit", "refresh", "oauth", or the exception that the arithmetic on a    *)
(* non-numeric expires_at raises.                                          *)
CacheDecision(ld, t) ==
    LET expires_at == Get(ld.rec.expires_at)
        access_token == Get(ld.rec.access_token)
        refresh_token == Get(ld.rec.refresh_token)
    IN  IF ~ld.found THEN "oauth"
        ELSE IF Truthy(access_token) /\ expires_at # None
             THEN IF expires_at.t # "int" THEN "TypeError"
                  ELSE IF TokenStillValid(t, expires_at.n) THEN "hit"
                  ELSE IF Truthy(refresh_token) THEN "refresh"
                  ELSE "oauth"
             ELSE "oauth"

(* The tuple get_valid_token returns, with how it got there.               *)
GvtTuple(path, at, rt, inst, gw, dev, exp, posts, writes) ==
    [returned |-> TRUE, path |-> path, access_token |-> at,
     refresh_token |-> rt, installation_id |-> inst, gateway_serial |-> gw,
     device_id |-> dev, expires_at |-> exp, posts |-> posts,
     writes |-> writes]

NoTuple ==
    [returned |-> FALSE, path |-> "", access_token |-> None,
     refresh_token |-> None, installation_id |-> None,
     gateway_serial |-> None, device_id |-> None, expires_at |-> None,
     posts |-> 0, writes |-> 0]

(* The record written after a successful refresh (lines 156-169).          *)
RefreshExpires(t, tr, expires_at) ==
    IF tr.expires_in # None THEN Num(t + tr.expires_in.n) ELSE expires_at

(* Faulty variant: the refreshed record is written without the ids.       *)
RefreshSaveData_TokenOnly(tr, rec, new_expires) ==
    [access_token |-> DropNone(tr.access_token),
     refresh_token |-> DropNone(Or(tr.refresh_token, Get(rec.refresh_token))),
     expires_at |-> DropNone(new_expires),
     installation_id |-> Absent, gateway_serial |-> Absent,
     device_id |-> Absent]

RefreshSaveData(tr, rec, new_expires) ==
    [access_token |-> DropNone(tr.access_token),
     refresh_token |-> DropNone(Or(tr.refresh_token, Get(rec.refresh_token))),
     expires_at |-> DropNone(new_expires),
     installation_id |-> DropNone(Get(rec.installation_id)),
     gateway_serial |-> DropNone(Get(rec.gateway_serial)),
     device_id |-> DropNone(Get(rec.device_id))]

(* The record written after the full flow (lines 194-208), and whether it  *)
(* is written at all (line 200).                                           *)
OAuthExpires(t, tr) ==
    IF tr.expires_in # None THEN Num(t + tr.expires_in.n)
    ELSE Num(t + DefaultExpiresIn)

OAuthPersists(has_cache_path, refresh_token) ==
    has_cache_path /\ Truthy(refresh_token)

(* Faulty variant: the record is written without the refresh token.       *)
OAuthSaveData_NoRefreshToken(access_token, refresh_token, expires_at) ==
    [access_token |-> access_token, refresh_token |-> Absent,
     expires_at |-> expires_at, installation_id |-> Absent,
     gateway_serial |-> Absent, device_id |-> Absent]

OAuthSaveData(access_token, refresh_token, expires_at) ==
    [access_token |-> access_token, refresh_token |-> refresh_token,
     expires_at |-> expires_at, installation_id |-> Absent,
     gateway_serial |-> Absent, device_id |-> Absent]

(* Faulty variant: the cached ids are never used.                         *)
UseCachedIds_Never(t) == FALSE

(* get_iot_config, line 378: the cached ids are used when all are set.     *)
UseCachedIds(t) ==
    Truthy(t.installation_id) /\ Truthy(t.gateway_serial) /\ Truthy(t.device_id)

(* The record written after equipment resolution (lines 395-406).          *)
ResolvedPersists(has_cache_path, refresh_token) ==
    has_cache_path /\ Truthy(refresh_token)

(* Faulty variant: the record is written without the device id.            *)
ResolvedSaveData_WithoutDevice(t, installation_id, gateway_serial, device_id) ==
    [access_token |-> t.access_token, refresh_token |-> t.refresh_token,
     expires_at |-> t.expires_at, installation_id |-> installation_id,
     gateway_serial |-> gateway_serial, device_id |-> Absent]

ResolvedSaveData(t, installation_id, gateway_serial, device_id) ==
    [access_token |-> t.access_token, refresh_token |-> t.refresh_token,
     expires_at |-> t.expires_at, installation_id |-> installation_id,
     gateway_serial |-> gateway_serial, device_id |-> device_id]

----------------------------------------------------------------------------
(* Requests and results.                                                   *)

(* session.post: only the authorize POST passes allow_redirects=False.     *)
Post(url, grant, sent) ==
    [method |-> "POST", url |-> url, grant |-> grant, sent |-> sent,
     bearer |-> "", allow_redirects |-> url # AuthorizeUrl]

(* Faulty variant: the GET carries no token.                              *)
BearerGet_NoToken(url, access_token) ==
    [method |-> "GET", url |-> url, grant |-> "", sent |-> "", bearer |-> "",
     allow_redirects |-> TRUE]

(* headers = {"Authorization": f"Bearer {access_token}"}                   *)
BearerGet(url, access_token) ==
    [method |-> "GET", url |-> url, grant |-> "", sent |-> "",
     bearer |-> ToStr(access_token), allow_redirects |-> TRUE]

NoResult ==
    [status |-> "none", exc |-> "none", access_token |-> None,
     installation_id |-> None, gateway_serial |-> None, device_id |-> None]

Raised(e) == [NoResult EXCEPT !.status = "raised", !.exc = e]

IotConfig(access_token, installation_id, gateway_serial, device_id) ==
    [status |-> "ok", exc |-> "none", access_token |-> access_token,
     installation_id |-> installation_id, gateway_serial |-> gateway_serial,
     device_id |-> device_id]

NoEquipment == [installation_id |-> None, gateway_serial |-> None]

NotResolved ==
    [done |-> FALSE, saved |-> FALSE, earlier |-> FALSE,
     installation_id |-> None, gateway_serial |-> None, device_id |-> None,
     expires_at |-> Num(0)]

----------------------------------------------------------------------------
(* get_heating_values.                                                     *)

get_iot_features_url(installation_id, gateway_serial, device_id) ==
    <<"installations", installation_id, "gateways", gateway_serial,
      "devices", device_id, "features">>

HEATING_FEATURE_PATHS ==
    <<(<<"heating", "gas", "consumption", "heating">>),
      (<<"heating", "burners", "0", "statistics">>),
      (<<"heating", "circuits", "0", "sensors", "temperature", "supply">>),
      (<<"heating", "sensors", "temperature", "outside">>)>>

(* The call: not made, waiting for the features GET, returned or raised;   *)
(* the requests it has issued.                                             *)
NoHeating == [status |-> "none", exc |-> "none", reqs |-> <<>>]

(* The feature lists the features endpoint is answered with.               *)
HeatingFeatures ==
    {Feature(PathValue(HEATING_FEATURE_PATHS[i]), e, EmptyProps) :
        i \in {1, 3}, e \in {Absent, PyFalse}}

FeaturesResponses ==
    {[net |-> "ok", status |-> 200, json |-> "valid", payload |-> p] :
        p \in {Payload("data_list", <<>>, NoFeature)}
              \cup {Payload("data_list", <<f>>, NoFeature) :
                       f \in HeatingFeatures}
              \cup {Payload("scalar", <<>>, NoFeature)}}
    \cup {[net |-> "ok", status |-> 404, json |-> "valid",
           payload |-> Payload("scalar", <<>>, NoFeature)],
          [net |-> "ok", status |-> 200, json |-> "invalid",
           payload |-> Payload("scalar", <<>>, NoFeature)],
          [net |-> "Timeout", status |-> 0, json |-> "invalid",
           payload |-> Payload("scalar", <<>>, NoFeature)]}

RECURSIVE SumGets(_, _, _)
(* The GETs that get_feature_value issues for the paths from position i.   *)
(* An exception ends the sequence of calls.                                *)
SumGets(features, resp, i) ==
    IF i > Len(HEATING_FEATURE_PATHS) THEN [exc |-> "none", gets |-> 0]
    ELSE LET v == get_feature_value(HEATING_FEATURE_PATHS[i], ListOf(features),
                                    resp)
             rest == SumGets(features, resp, i + 1)
         IN  IF v.exc # "none" THEN [exc |-> v.exc, gets |-> v.gets]
             ELSE [exc |-> rest.exc, gets |-> v.gets + rest.gets]

(* float(x) inside try / except (TypeError, ValueError): pass.             *)
FloatOrNone(x) ==
    IF IsIntOrFloat(x) THEN ToFloat(x)
    ELSE IF x.t = "str" /\ ParseNumber(x) # None THEN ToFloat(ParseNumber(x))
    ELSE None

Pair(today, yesterday) == [today |-> today, yesterday |-> yesterday]

(* Faulty variant: yesterday is read from the last element of the array.   *)
_extract_gas_consumption_m3_pair_LastElement(consumption_props) ==
    IF consumption_props = None \/ consumption_props.t # "props"
    THEN Pair(None, None)
    ELSE LET day_obj == Get(consumption_props.day)
         IN  IF day_obj.t # "dict" THEN Pair(None, None)
             ELSE LET val_arr == Get(day_obj.value)
                  IN  IF val_arr.t # "list" THEN Pair(None, None)
                      ELSE IF Len(val_arr.items) = 0 THEN Pair(None, None)
                      ELSE Pair(FloatOrNone(val_arr.items[1]),
                                IF Len(val_arr.items) >= 2
                                THEN FloatOrNone(
                                         val_arr.items[Len(val_arr.items)])
                                ELSE None)

(* _extract_gas_consumption_m3_pair: (day.value[0], day.value[1]).         *)
_extract_gas_consumption_m3_pair(consumption_props) ==
    IF consumption_props = None \/ consumption_props.t # "props"
    THEN Pair(None, None)
    ELSE LET day_obj == Get(consumption_props.day)
         IN  IF day_obj.t # "dict" THEN Pair(None, None)
             ELSE LET val_arr == Get(day_obj.value)
                  IN  IF val_arr.t # "list" THEN Pair(None, None)
                      ELSE IF Len(val_arr.items) = 0 THEN Pair(None, None)
                      ELSE Pair(FloatOrNone(val_arr.items[1]),
                                IF Len(val_arr.items) >= 2
                                THEN FloatOrNone(val_arr.items[2])
                                ELSE None)

(* The dict get_heating_values returns.                                    *)
Snapshot(today, yesterday, betriebsstunden, starts, supply_temp, outside_temp, fetched_at) ==
    [gas_consumption_m3_today |-> today,
     gas_consumption_m3_yesterday |-> yesterday,
     betriebsstunden |-> betriebsstunden, starts |-> starts,
     supply_temp |-> supply_temp, outside_temp |-> outside_temp,
     fetched_at |-> fetched_at]

(* What get_heating_values returns or raises, and the GETs it issued.      *)
HeatingReturned(snapshot, gets) ==
    [exc |-> "none", returned |-> TRUE, snapshot |-> snapshot, gets |-> gets]
HeatingRaised(e, gets) ==
    [exc |-> e, returned |-> FALSE, snapshot |-> <<>>, gets |-> gets]

(* int(x) / float(x) if x is not None else None                            *)
IntIfSet(x) == IF x = None THEN None ELSE Num(x.n)
FloatIfSet(x) == IF x = None THEN None ELSE ToFloat(x)

(* if v is not None and not isinstance(v, (int, float)): v = None          *)
NumberOrNone(v) == IF v # None /\ ~IsIntOrFloat(v) THEN None ELSE v

(* The snapshot built from the four extracted values (lines 88-131).       *)
SnapshotOf(consumption_props, burner_stats, supply_temp, outside_temp, t) ==
    LET gas == _extract_gas_consumption_m3_pair(consumption_props)
        is_dict == burner_stats.t = "stats"
    IN  Snapshot(FloatIfSet(gas.today), FloatIfSet(gas.yesterday),
                 IF is_dict THEN IntIfSet(Get(burner_stats.betriebsstunden))
                 ELSE None,
                 IF is_dict THEN IntIfSet(Get(burner_stats.starts)) ELSE None,
                 FloatIfSet(NumberOrNone(supply_temp)),
                 FloatIfSet(NumberOrNone(outside_temp)), t)

(* Faulty variant: a feature that is not in the list aborts the call.      *)
get_heating_values_MissingAborts(resp, t) ==
    LET fs == get_device_features(resp)
        features == ListOf(fs.items)
        v(i) == get_feature_value(HEATING_FEATURE_PATHS[i], features, resp)
        lookups == SumGets(fs.items, resp, 1)
    IN  IF fs.exc # "none" THEN HeatingRaised(fs.exc, fs.gets)
        ELSE IF lookups.exc # "none"
             THEN HeatingRaised(lookups.exc, fs.gets + lookups.gets)
        ELSE IF \E i \in 1..4 : v(i).value = None
             THEN HeatingRaised("KeyError", fs.gets + lookups.gets)
        ELSE HeatingReturned(SnapshotOf(v(1).value, v(2).value, v(3).value,
                                        v(4).value, t),
                             fs.gets + lookups.gets)

(* get_heating_values at time t, from the response of the features GET:    *)
(* the list, the four values looked up in it, the snapshot.                *)
get_heating_values(resp, t) ==
    LET fs == get_device_features(resp)
        features == ListOf(fs.items)
        v(i) == get_feature_value(HEATING_FEATURE_PATHS[i], features, resp)
        lookups == SumGets(fs.items, resp, 1)
    IN  IF fs.exc # "none" THEN HeatingRaised(fs.exc, fs.gets)
        ELSE IF lookups.exc # "none"
             THEN HeatingRaised(lookups.exc, fs.gets + lookups.gets)
        ELSE HeatingReturned(SnapshotOf(v(1).value, v(2).value, v(3).value,
                                        v(4).value, t),
                             fs.gets + lookups.gets)

----------------------------------------------------------------------------
(* Initial cache files: anything may be at the path.                       *)

InitIds ==
    {[installation_id |-> Absent, gateway_serial |-> Absent, device_id |-> Absent],
     [installation_id |-> Str("eq-0"), gateway_serial |-> Absent, device_id |-> Absent],
     [installation_id |-> Str("eq-0"), gateway_serial |-> Str("eq-0"),
      device_id |-> Str("eq-0")]}

InitExpires ==
    {None, Str("soon"), Num(Now0 - 1), Num(Now0 + _TOKEN_EXPIRY_BUFFER),
     Num(Now0 + _TOKEN_EXPIRY_BUFFER + 1)}

InitRecs ==
    {[access_token |-> Str("AT-0"), refresh_token |-> rt, expires_at |-> ex,
      installation_id |-> ids.installation_id,
      gateway_serial |-> ids.gateway_serial, device_id |-> ids.device_id] :
        rt \in {Absent, Str("RT-0")}, ex \in InitExpires, ids \in InitIds}
    \cup
    {[NoRec EXCEPT !.access_token = at, !.refresh_token = Str("RT-0"),
                   !.expires_at = ex] :
        at \in {Absent, None, Str(""), Str("AT-0")},
        ex \in {Absent, Num(Now0 + 2 * _TOKEN_EXPIRY_BUFFER)}}

InitFiles ==
    {FileOf(k, NoRec) : k \in {"missing", "unreadable", "not_utf8", "not_json",
                               "json_other"}}
    \cup {JsonObject(r) : r \in InitRecs}

ClientInit ==
    /\ now = Now0
    /\ ticks = 0
    /\ file \in InitFiles
    /\ pc = "idle"
    /\ cache_path = FALSE
    /\ gvt_now = Now0
    /\ cached = LoadedNone
    /\ tok = NoTuple
    /\ eq = NoEquipment
    /\ reqs = <<>>
    /\ cache_io = [reads |-> 0, writes |-> 0]
    /\ result = NoResult
    /\ last_resolved = NotResolved

----------------------------------------------------------------------------
(* get_iot_config.                                                         *)

(* Faulty variant: the exception is recorded but the call keeps waiting.   *)
Raise_KeepsWaiting(e) ==
    /\ pc' = pc
    /\ result' = Raised(e)

(* raise: the call ends with the exception.                                *)
Raise(e) ==
    /\ pc' = "idle"
    /\ result' = Raised(e)

(* Lines 370-383: get_valid_token has returned t after the requests rq.    *)
(* With all three cached ids the call returns; otherwise it issues the     *)
(* installations GET.                                                      *)
Continue(t, rq) ==
    /\ tok' = t
    /\ IF UseCachedIds(t)
       THEN /\ reqs' = rq
            /\ pc' = "idle"
            /\ result' = IotConfig(t.access_token, t.installation_id,
                                   t.gateway_serial, t.device_id)
       ELSE /\ reqs' = Append(rq, BearerGet(get_iot_installations_url,
                                            t.access_token))
            /\ pc' = "await_inst"
            /\ result' = NoResult

(* The call starts: cache path, get_valid_token step 1 (lines 117-148),    *)
(* up to the first request or the return.                                  *)
Start(token_cache_disabled, elapsed) ==
    /\ UNCHANGED <<save_vars, fn_vars, job_vars>>
    /\ hv.status # "running"
    /\ hv' = NoHeating
    /\ pc = "idle"
    /\ elapsed > 0 => ticks < MaxTicks
    /\ now' = now + elapsed
    /\ ticks' = IF elapsed > 0 THEN ticks + 1 ELSE ticks
    /\ cache_path' = ~token_cache_disabled
    /\ gvt_now' = now'
    /\ last_resolved' =
           IF /\ last_resolved.done
              /\ TokenStillValid(now', last_resolved.expires_at.n)
           THEN [last_resolved EXCEPT !.earlier = TRUE]
           ELSE NotResolved
    /\ eq' = NoEquipment
    /\ LET ld == IF token_cache_disabled THEN LoadedNone
                 ELSE load_token_cache(file)
           decision == IF ld.exc # "none" THEN ld.exc
                       ELSE CacheDecision(ld, now')
           rec == ld.rec
       IN  /\ cached' = ld
           /\ cache_io' = [reads |-> IF token_cache_disabled THEN 0 ELSE 1,
                           writes |-> 0]
           /\ CASE decision = "hit" ->
                     Continue(GvtTuple("hit", Get(rec.access_token),
                                       Get(rec.refresh_token),
                                       Get(rec.installation_id),
                                       Get(rec.gateway_serial),
                                       Get(rec.device_id),
                                       Num(Get(rec.expires_at).n), 0, 0),
                              <<>>)
                [] decision = "refresh" ->
                     /\ pc' = "await_refresh"
                     /\ reqs' = <<Post(TokenUrl, "refresh_token",
                                       ToStr(Get(rec.refresh_token)))>>
                     /\ tok' = NoTuple
                     /\ result' = NoResult
                [] decision = "oauth" ->
                     /\ pc' = "await_authorize"
                     /\ reqs' = <<Post(AuthorizeUrl, "", "")>>
                     /\ tok' = NoTuple
                     /\ result' = NoResult
                [] OTHER ->
                     /\ Raise(decision)
                     /\ reqs' = <<>>
                     /\ tok' = NoTuple
    /\ UNCHANGED file

(* The response of the refresh POST (lines 150-187).                       *)
RefreshResponse(resp) ==
    /\ UNCHANGED <<save_vars, fn_vars, hv, job_vars>>
    /\ pc = "await_refresh"
    /\ LET r == refresh_access_token(resp)
           tr == TokenResponse(resp)
           rec == cached.rec
           new_expires == RefreshExpires(gvt_now, tr, Get(rec.expires_at))
       IN  CASE r.exc = "none" ->
                 /\ file' = save_token_cache(RefreshSaveData(tr, rec, new_expires))
                 /\ cache_io' = [cache_io EXCEPT !.writes = @ + 1]
                 /\ Continue(GvtTuple("refresh", tr.access_token,
                                      Or(tr.refresh_token, Get(rec.refresh_token)),
                                      Get(rec.installation_id),
                                      Get(rec.gateway_serial),
                                      Get(rec.device_id), new_expires,
                                      Len(reqs), cache_io.writes + 1),
                             reqs)
            [] r.exc = "CliError" ->
                 /\ pc' = "await_authorize"
                 /\ reqs' = Append(reqs, Post(AuthorizeUrl, "", ""))
                 /\ UNCHANGED <<file, cache_io, tok, result>>
            [] OTHER ->
                 /\ Raise(r.exc)
                 /\ UNCHANGED <<file, cache_io, tok, reqs>>
    /\ UNCHANGED <<now, ticks, cache_path, gvt_now, cached, eq,
                   last_resolved>>

(* The response of POST /authorize (line 190).                             *)
AuthorizeResponse(resp) ==
    /\ UNCHANGED <<save_vars, fn_vars, hv, job_vars>>
    /\ pc = "await_authorize"
    /\ LET r == request_authorization_code(resp)
       IN  IF r.exc = "none"
           THEN /\ pc' = "await_token"
                /\ reqs' = Append(reqs, Post(TokenUrl, "authorization_code",
                                             r.code))
                /\ UNCHANGED result
           ELSE /\ Raise(r.exc)
                /\ UNCHANGED reqs
    /\ UNCHANGED <<now, ticks, file, cache_path, gvt_now, cached, tok,
                   eq, cache_io, last_resolved>>

(* The response of POST /token (lines 191-210).                            *)
ExchangeResponse(resp) ==
    /\ UNCHANGED <<save_vars, fn_vars, hv, job_vars>>
    /\ pc = "await_token"
    /\ LET r == exchange_code_for_token(resp)
           tr == TokenResponse(resp)
           expires_at == OAuthExpires(gvt_now, tr)
           persist == OAuthPersists(cache_path, tr.refresh_token)
           writes == IF persist THEN cache_io.writes + 1 ELSE cache_io.writes
       IN  IF r.exc = "none"
           THEN /\ file' = IF persist
                           THEN save_token_cache(
                                    OAuthSaveData(r.token, tr.refresh_token,
                                                  expires_at))
                           ELSE file
                /\ cache_io' = [cache_io EXCEPT !.writes = writes]
                /\ Continue(GvtTuple("oauth", r.token, tr.refresh_token,
                                     None, None, None, expires_at, Len(reqs),
                                     writes),
                            reqs)
           ELSE /\ Raise(r.exc)
                /\ UNCHANGED <<file, cache_io, tok, reqs>>
    /\ UNCHANGED <<now, ticks, cache_path, gvt_now, cached, eq,
                   last_resolved>>

(* The response of the installations GET (line 383).                       *)
InstallationsResponse(resp) ==
    /\ UNCHANGED <<save_vars, fn_vars, hv, job_vars>>
    /\ pc = "await_inst"
    /\ LET r == get_installation_id(resp)
       IN  IF r.exc = "none"
           THEN /\ eq' = [eq EXCEPT !.installation_id = r.v]
                /\ reqs' = Append(reqs, BearerGet(get_iot_gateways_url,
                                                  tok.access_token))
                /\ pc' = "await_gw"
                /\ UNCHANGED result
           ELSE /\ Raise(r.exc)
                /\ UNCHANGED <<eq, reqs>>
    /\ UNCHANGED <<now, ticks, file, cache_path, gvt_now, cached, tok,
                   cache_io, last_resolved>>

(* The response of the gateways GET (lines 384-385).                       *)
GatewaysResponse(resp) ==
    /\ UNCHANGED <<save_vars, fn_vars, hv, job_vars>>
    /\ pc = "await_gw"
    /\ LET r == get_gateway_serial(resp)
       IN  IF r.exc = "none"
           THEN /\ eq' = [eq EXCEPT !.gateway_serial = r.v]
                /\ reqs' = Append(reqs,
                       BearerGet(get_iot_devices_url(ToStr(eq.installation_id),
                                                     ToStr(r.v)),
                                 tok.access_token))
                /\ pc' = "await_dev"
                /\ UNCHANGED result
           ELSE /\ Raise(r.exc)
                /\ UNCHANGED <<eq, reqs>>
    /\ UNCHANGED <<now, ticks, file, cache_path, gvt_now, cached, tok,
                   cache_io, last_resolved>>

(* The response of the devices GET (lines 385-431).                        *)
DevicesResponse(resp) ==
    /\ UNCHANGED <<save_vars, fn_vars, hv, job_vars>>
    /\ pc = "await_dev"
    /\ LET r == get_device_id(resp)
           persist == ResolvedPersists(cache_path, tok.refresh_token)
       IN  IF r.exc = "none"
           THEN /\ file' = IF persist
                           THEN save_token_cache(
                                    ResolvedSaveData(tok, eq.installation_id,
                                                     eq.gateway_serial, r.v))
                           ELSE file
                /\ cache_io' = [cache_io EXCEPT
                                   !.writes = IF persist THEN @ + 1 ELSE @]
                /\ pc' = "idle"
                /\ result' = IotConfig(tok.access_token, eq.installation_id,
                                       eq.gateway_serial, r.v)
                /\ last_resolved' =
                       IF cache_path
                       THEN [done |-> TRUE, saved |-> persist,
                             earlier |-> FALSE,
                             installation_id |-> eq.installation_id,
                             gateway_serial |-> eq.gateway_serial,
                             device_id |-> r.v, expires_at |-> tok.expires_at]
                       ELSE last_resolved
           ELSE /\ Raise(r.exc)
                /\ UNCHANGED <<file, cache_io, last_resolved>>
    /\ UNCHANGED <<now, ticks, cache_path, gvt_now, cached, tok, eq,
                   reqs>>

(* get_heating_values(iot_config) with the configuration the last call   *)
(* returned: the features GET of get_device_features (lines 75-79).        *)
HeatingValues ==
    /\ UNCHANGED <<save_vars, fn_vars, job_vars>>
    /\ pc = "idle"
    /\ result.status = "ok"
    /\ hv.status = "none"
    /\ hv' = [status |-> "running", exc |-> "none",
              reqs |-> <<BearerGet(
                           get_iot_features_url(ToStr(result.installation_id),
                                                ToStr(result.gateway_serial),
                                                ToStr(result.device_id)),
                           result.access_token)>>]
    /\ UNCHANGED client_vars

(* The response of the features GET, then the four lookups in the list     *)
(* (lines 81-131).                                                         *)
FeaturesResponse(resp) ==
    /\ UNCHANGED <<save_vars, fn_vars, job_vars>>
    /\ hv.status = "running"
    /\ LET fs == get_device_features(resp)
           lookups == SumGets(fs.items, resp, 1)
       IN  IF fs.exc # "none"
           THEN hv' = [hv EXCEPT !.status = "raised", !.exc = fs.exc]
           ELSE hv' = [status |-> IF lookups.exc = "none" THEN "ok"
                                  ELSE "raised",
                       exc |-> lookups.exc,
                       reqs |-> hv.reqs \o
                                [k \in 1..lookups.gets |->
                                    BearerGet(<<"feature">>,
                                              result.access_token)]]
    /\ UNCHANGED client_vars

ClientNext ==
    \/ \E d \in BOOLEAN, elapsed \in {0} \cup TickSteps : Start(d, elapsed)
    \/ \E resp \in TokenResponses : RefreshResponse(resp)
    \/ \E resp \in AuthorizeResponses : AuthorizeResponse(resp)
    \/ \E resp \in TokenResponses : ExchangeResponse(resp)
    \/ \E resp \in InstallationsResponses : InstallationsResponse(resp)
    \/ \E resp \in GatewaysResponses : GatewaysResponse(resp)
    \/ \E resp \in DevicesResponses : DevicesResponse(resp)

-----------------------------------------------------------------------------
(* save_token_cache under concurrency (lines 92-100).  Several processes   *)
(* save to the same cache path while a reader reads it.  The file system   *)
(* is a directory that maps the two path names to inodes, and inodes that  *)
(* hold the bytes; a file's text is a sequence of chunks, one per write.   *)

NumWriters == 3
RecordChunks == 2

Writers == 1..NumWriters

(* json.dumps(data) of writer w, as the chunks that reach the file.        *)
Record(w) == [i \in 1..RecordChunks |-> <<w, i>>]

(* The record that a save completed earlier has left at the cache path.    *)
EarlierRecord == Record(0)

Hole == <<0, 0>>
NoInode == 0
NewFile == [content |-> <<>>, mode |-> "0644"]
NotRead == <<"not read">>
NoFileSeen == <<"no file">>

WriterAt(position, inode, offset) ==
    [pc |-> position, fd |-> inode, off |-> offset]

(* Line 97, tmp_path: the same name for every writer of one cache path.    *)
tmp_path(w) == "tmp"

(* open(tmp_path, "w"): O_CREAT | O_TRUNC.  An existing file is truncated  *)
(* in place, a missing one is created.                                     *)
Open(w) ==
    /\ UNCHANGED <<client_vars, fn_vars, hv, job_vars>>
    /\ writers[w].pc = "start"
    /\ IF dir[tmp_path(w)] = NoInode
       THEN /\ inodes' = Append(inodes, NewFile)
            /\ dir' = [dir EXCEPT ![tmp_path(w)] = Len(inodes) + 1]
            /\ writers' = [writers EXCEPT
                              ![w] = WriterAt("open", Len(inodes) + 1, 0)]
       ELSE /\ inodes' = [inodes EXCEPT ![dir[tmp_path(w)]].content = <<>>]
            /\ dir' = dir
            /\ writers' = [writers EXCEPT
                              ![w] = WriterAt("open", dir[tmp_path(w)], 0)]
    /\ UNCHANGED observed

(* The bytes of old with chunk c written at offset off; a write past the   *)
(* end of the file leaves a hole before it.                                *)
WriteAt(old, off, c) ==
    [i \in 1..(IF off + 1 > Len(old) THEN off + 1 ELSE Len(old)) |->
        IF i = off + 1 THEN c
        ELSE IF i <= Len(old) THEN old[i] ELSE Hole]

(* write(fd, chunk) at the descriptor's offset; the last one is followed   *)
(* by close(fd).                                                           *)
Write(w) ==
    /\ UNCHANGED <<client_vars, fn_vars, hv, job_vars>>
    /\ writers[w].pc = "open"
    /\ LET me == writers[w]
           chunk == Record(w)[me.off + 1]
       IN  /\ inodes' = [inodes EXCEPT
                            ![me.fd].content = WriteAt(@, me.off, chunk)]
           /\ writers' = [writers EXCEPT
                             ![w] = WriterAt(IF me.off + 1 = RecordChunks
                                             THEN "written" ELSE "open",
                                             me.fd, me.off + 1)]
    /\ UNCHANGED <<dir, observed>>

(* Line 99: tmp_path.chmod(0o600); FileNotFoundError without the file.     *)
Chmod(w) ==
    /\ UNCHANGED <<client_vars, fn_vars, hv, job_vars>>
    /\ writers[w].pc = "written"
    /\ IF dir[tmp_path(w)] = NoInode
       THEN /\ writers' = [writers EXCEPT ![w].pc = "FileNotFoundError"]
            /\ UNCHANGED inodes
       ELSE /\ inodes' = [inodes EXCEPT ![dir[tmp_path(w)]].mode = "0600"]
            /\ writers' = [writers EXCEPT ![w].pc = "chmodded"]
    /\ UNCHANGED <<dir, observed>>

(* Line 100: tmp_path.rename(cache_path); FileNotFoundError without the    *)
(* file.                                                                   *)
Rename(w) ==
    /\ UNCHANGED <<client_vars, fn_vars, hv, job_vars>>
    /\ writers[w].pc = "chmodded"
    /\ IF dir[tmp_path(w)] = NoInode
       THEN /\ writers' = [writers EXCEPT ![w].pc = "FileNotFoundError"]
            /\ UNCHANGED dir
       ELSE /\ dir' = [dir EXCEPT !["cache"] = dir[tmp_path(w)],
                                  ![tmp_path(w)] = NoInode]
            /\ writers' = [writers EXCEPT ![w].pc = "returned"]
    /\ UNCHANGED <<inodes, observed>>

(* A reader of the cache path (lines 78-80): the whole file at once.       *)
Read ==
    /\ UNCHANGED <<client_vars, fn_vars, hv, job_vars>>
    /\ observed' = IF dir["cache"] = NoInode THEN NoFileSeen
                   ELSE inodes[dir["cache"]].content
    /\ UNCHANGED <<dir, inodes, writers>>

SaveIdle ==
    /\ dir = [n \in {"cache", "tmp"} |-> NoInode]
    /\ inodes = <<>>
    /\ writers = [w \in Writers |-> WriterAt("start", NoInode, 0)]
    /\ observed = NotRead

SaveInit ==
    /\ \/ /\ dir = [n \in {"cache", "tmp"} |-> NoInode]
          /\ inodes = <<>>
       \/ /\ dir = [n \in {"cache", "tmp"} |->
                       IF n = "cache" THEN 1 ELSE NoInode]
          /\ inodes = <<[content |-> EarlierRecord, mode |-> "0600"]>>
    /\ writers = [w \in Writers |-> WriterAt("start", NoInode, 0)]
    /\ observed = NotRead

SaveNext ==
    \/ \E w \in Writers : Open(w)
    \/ \E w \in Writers : Write(w)
    \/ \E w \in Writers : Chmod(w)
    \/ \E w \in Writers : Rename(w)
    \/ Read

ClientIdle ==
    /\ now = Now0
    /\ ticks = 0
    /\ file = FileMissing
    /\ pc = "idle"
    /\ cache_path = FALSE
    /\ gvt_now = Now0
    /\ cached = LoadedNone
    /\ tok = NoTuple
    /\ eq = NoEquipment
    /\ reqs = <<>>
    /\ cache_io = [reads |-> 0, writes |-> 0]
    /\ result = NoResult
    /\ last_resolved = NotResolved

-----------------------------------------------------------------------------
(* The functions that keep no state, each called on its own with arguments *)
(* drawn from the values it can be handed.                                 *)

NoCall == [op |-> "none"]
NoRet == [exc |-> "none"]

(* The values a list element can hold under its key.                       *)
FieldValues ==
    {Str("inst-1"), Num(7), Num(0), PyTrue, PyFalse, Str(""), None, Absent,
     Other}

(* The list payloads handed to the resolvers and to _extract_list: every   *)
(* envelope shape, an empty list, one element, and elements behind it.     *)
FnItems == {Item(v, v) : v \in FieldValues}
FnLaterItems == {Item(Str("eq-2"), Str("eq-2")), Item(Absent, Absent)}
FnLists ==
    {<<>>} \cup {<<f>> : f \in FnItems}
    \cup {<<f, l>> : f \in FnItems, l \in FnLaterItems}
    \cup {<<f, NotAnObject>> : f \in {Item(Str("inst-1"), Str("inst-1"))}}
    \cup {<<NotAnObject>>}
FnPayloads ==
    {Payload(sh, l, NotAnObject) : sh \in {"data_list", "bare_list"},
                                  l \in FnLists}
    \cup {Payload("data_object", <<>>, o) : o \in FnItems}
    \cup {Payload(sh, <<>>, NotAnObject) :
              sh \in {"data_scalar", "scalar", "object_without_data"}}
FnListResponses ==
    {[net |-> "ok", status |-> 200, json |-> "valid", payload |-> p] :
        p \in FnPayloads}

Endpoints ==
    {[what |-> "installations", key |-> "id",
      url |-> get_iot_installations_url],
     [what |-> "gateways", key |-> "serial", url |-> get_iot_gateways_url],
     [what |-> "devices", key |-> "id",
      url |-> get_iot_devices_url("inst-1", "gw-1")]}

(* get_installation_id / get_gateway_serial / get_device_id, from the      *)
(* response of its GET.                                                    *)
CallResolver(e, resp) ==
    /\ UNCHANGED <<client_vars, save_vars, hv, job_vars>>
    /\ call = NoCall
    /\ call' = [op |-> "resolver", endpoint |-> e, resp |-> resp]
    /\ LET r == CASE e.what = "installations" -> get_installation_id(resp)
                  [] e.what = "gateways" -> get_gateway_serial(resp)
                  [] OTHER -> get_device_id(resp)
       IN  ret' = [exc |-> r.exc, v |-> r.v,
                   msg |-> IF r.exc = "CliError"
                           THEN ResolveMessage(resp, e.key, e.url, e.what)
                           ELSE OtherMessage("")]

(* The calls are made one at a time: a call returns before the next.       *)
Return ==
    /\ UNCHANGED <<client_vars, save_vars, hv, job_vars>>
    /\ call # NoCall
    /\ call' = NoCall
    /\ ret' = NoRet

(* Query strings of up to MaxParams parameters, bodies of up to MaxLexemes *)
(* lexemes.                                                                *)
MaxParams == 2
MaxLexemes == 3

RECURSIVE SeqsOfLen(_, _)
SeqsOfLen(S, k) ==
    IF k = 0 THEN {<<>>}
    ELSE {Append(q, x) : q \in SeqsOfLen(S, k - 1), x \in S}

SeqsUpTo(S, k) == UNION {SeqsOfLen(S, j) : j \in 0..k}

(* The parameters of a query string: a blank code, a code, and another     *)
(* parameter.                                                              *)
Params(code) == {<<"code", "">>, <<"code", code>>, <<"state", code>>}
Urls(code, k) == {NoUrl} \cup {Url(q) : q \in SeqsUpTo(Params(code), k)}
Bodies(k) == SeqsUpTo({"code=", "body-code"} \cup Stoppers, k)

(* The responses extract_authorization_code is called with: a Location    *)
(* of up to params parameters, a final URL one parameter shorter, a body   *)
(* of up to lexemes lexemes.                                               *)
FnAuthorizeResponses(params, lexemes) ==
    {AuthorizeResponseOf(302, l, u, b) :
        l \in Urls("location-code", params),
        u \in Urls("url-code", params - 1), b \in Bodies(lexemes)}

(* extract_authorization_code(response).                                   *)
CallExtractAuthorizationCode(response) ==
    /\ UNCHANGED <<client_vars, save_vars, hv, job_vars>>
    /\ call = NoCall
    /\ call' = [op |-> "extract_authorization_code", response |-> response]
    /\ ret' = extract_authorization_code(response)

(* The /token responses exchange_code_for_token is called against:         *)
(* statuses on both sides of 200..299 and of 400, bodies that are a JSON   *)
(* object, other JSON and not JSON.                                        *)
FnTokenResponses ==
    [net : {"ok"}, status : {200, 204, 299, 300, 302, 399, 400, 500},
     json : {"object"}, access_token : {Str("AT-1"), Str(""), None, Absent},
     refresh_token : {Absent}, expires_in : {Absent}]
    \cup [net : {"ok"}, status : {200, 302, 400}, json : {"invalid", "list"},
           access_token : {Absent}, refresh_token : {Absent},
           expires_in : {Absent}]

(* exchange_code_for_token, from the response of the POST.                 *)
CallExchangeCodeForToken(resp) ==
    /\ UNCHANGED <<client_vars, save_vars, hv, job_vars>>
    /\ call = NoCall
    /\ call' = [op |-> "exchange_code_for_token", resp |-> resp]
    /\ ret' = exchange_code_for_token(resp)

(* The features, feature lists and responses the fetchers are called       *)
(* with.                                                                   *)
FnPaths == {<<"heating", "temperature">>, <<"heating", "consumption">>}
FnProps == {Absent, EmptyProps, Props(ValueObj(Num(21)), Absent, Absent, Absent)}
FnFeatures ==
    {Feature(PathValue(p), e, props) :
        p \in FnPaths, e \in {Absent, PyTrue, PyFalse, None},
        props \in FnProps}
MaxFeatures == 2
FnFeatureLists == SeqsUpTo(FnFeatures \cup {NoFeature}, MaxFeatures)
FnFeaturePayloads ==
    {Payload(sh, l, NoFeature) : sh \in {"data_list", "bare_list"},
                                l \in FnFeatureLists}
    \cup {Payload("data_object", <<>>, f) : f \in FnFeatures}
    \cup {Payload(sh, <<>>, NoFeature) : sh \in {"data_scalar", "scalar"}}
FnFeatureResponses ==
    {[net |-> "ok", status |-> 200, json |-> "valid", payload |-> pl] :
        pl \in FnFeaturePayloads}
    \cup {[net |-> "ok", status |-> st, json |-> j,
           payload |-> Payload("data_object", <<>>, f)] :
              st \in {400, 403, 404, 500}, j \in {"valid", "invalid"},
              f \in {Feature(PathValue(<<"heating", "temperature">>), PyTrue,
                             EmptyProps)}}
    \cup {[net |-> n, status |-> st, json |-> "invalid",
           payload |-> Payload("scalar", <<>>, NoFeature)] :
              n \in {"ok", "Timeout"}, st \in {200}}

(* get_single_feature(feature_path, iot_config), from the response of the  *)
(* GET.                                                                    *)
CallGetSingleFeature(feature_path, resp) ==
    /\ UNCHANGED <<client_vars, save_vars, hv, job_vars>>
    /\ call = NoCall
    /\ call' = [op |-> "get_single_feature", feature_path |-> feature_path,
                resp |-> resp]
    /\ ret' = get_single_feature(feature_path, resp)

(* get_feature_data(feature_path, iot_config, features_data=...); resp is  *)
(* the response a GET would get.                                           *)
CallGetFeatureData(feature_path, features_data, resp) ==
    /\ UNCHANGED <<client_vars, save_vars, hv, job_vars>>
    /\ call = NoCall
    /\ call' = [op |-> "get_feature_data", feature_path |-> feature_path,
                features_data |-> features_data, resp |-> resp]
    /\ ret' = get_feature_data(feature_path, features_data, resp)

(* The features extract_feature_value is called with: none, the object     *)
(* {"isEnabled": false}, and features with properties of each kind.        *)
FnExtractFeatures ==
    {NoFeature, Feature(Absent, PyFalse, Absent)}
    \cup {Feature(Absent, e, props) :
              e \in {Absent, PyFalse},
              props \in {None,
                         Props(ValueObj(Num(21)), Absent, Absent, Absent),
                         Props(Absent, ValueObj(Str("7")), Absent, Absent),
                         Props(Absent, Absent, ValueObj(Num(12)), Num(3))}}

(* extract_feature_value(feature_path, feature).                           *)
CallExtractFeatureValue(feature_path, feature) ==
    /\ UNCHANGED <<client_vars, save_vars, hv, job_vars>>
    /\ call = NoCall
    /\ call' = [op |-> "extract_feature_value", feature_path |-> feature_path,
                feature |-> feature]
    /\ ret' = extract_feature_value(feature_path, feature)

(* get_feature_value(feature_path, iot_config, features_data=...); resp is *)
(* the response a GET would get.                                           *)
CallGetFeatureValue(feature_path, features_data, resp) ==
    /\ UNCHANGED <<client_vars, save_vars, hv, job_vars>>
    /\ call = NoCall
    /\ call' = [op |-> "get_feature_value", feature_path |-> feature_path,
                features_data |-> features_data, resp |-> resp]
    /\ ret' = get_feature_value(feature_path, features_data, resp)

(* _extract_list(payload).                                                 *)
CallExtractList(payload) ==
    /\ UNCHANGED <<client_vars, save_vars, hv, job_vars>>
    /\ call = NoCall
    /\ call' = [op |-> "_extract_list", payload |-> payload]
    /\ ret' = [exc |-> IF _extract_list(payload).ok THEN "none"
                       ELSE "CliError",
               items |-> _extract_list(payload).items]

(* The values x that a temperature property can hold: an integer, a       *)
(* float, a boolean, numeric and other strings, null, nothing, a list.     *)
ScalarValues ==
    {Num(21), Num(0), Float(21), PyTrue, Str("21"), Str("warm"), Str(""),
     None, Absent, Other}

(* The shapes of properties that extract_temperature supports, around x.   *)
TemperatureShapes ==
    {"temperature", "temperature.value", "temperature.value.value", "value",
     "value.value"}
ShapedProps(shape, x) ==
    CASE shape = "temperature" -> Props(x, Absent, Absent, Absent)
      [] shape = "temperature.value" ->
             Props(ValueObj(x), Absent, Absent, Absent)
      [] shape = "temperature.value.value" ->
             Props(ValueObj(ValueObj(x)), Absent, Absent, Absent)
      [] shape = "value" -> Props(Absent, x, Absent, Absent)
      [] OTHER -> Props(Absent, ValueObj(x), Absent, Absent)

(* extract_temperature(feature), the feature holding x in the given shape. *)
CallExtractTemperature(shape, x) ==
    /\ UNCHANGED <<client_vars, save_vars, hv, job_vars>>
    /\ call = NoCall
    /\ call' = [op |-> "extract_temperature", shape |-> shape, x |-> x]
    /\ ret' = [exc |-> "none",
               value |-> extract_temperature(
                             Feature(Absent, Absent, ShapedProps(shape, x)))]

(* What the features list holds for one of the four paths: nothing, the   *)
(* feature disabled, the feature without properties or with empty ones,    *)
(* the feature with a value.                                               *)
SlotKinds ==
    {"absent", "disabled", "no_properties", "empty_properties", "usable"}

UsableProps(i) ==
    CASE i = 1 -> ConsumptionProps(
                      ValueObj(ListValue(<<Float(5), Float(8), Num(9)>>)))
      [] i = 2 -> Props(Absent, Absent, ValueObj(Num(12)), Num(3))
      [] i = 3 -> Props(Absent, ValueObj(Float(45)), Absent, Absent)
      [] OTHER -> Props(Num(3), Absent, Absent, Absent)

SlotFeature(i, kind) ==
    Feature(PathValue(HEATING_FEATURE_PATHS[i]),
            IF kind = "disabled" THEN PyFalse ELSE PyTrue,
            CASE kind = "no_properties" -> Absent
              [] kind = "empty_properties" -> EmptyProps
              [] OTHER -> UsableProps(i))

RECURSIVE SlotList(_, _)
SlotList(slots, i) ==
    IF i > Len(slots) THEN <<>>
    ELSE (IF slots[i] = "absent" THEN <<>> ELSE <<SlotFeature(i, slots[i])>>)
         \o SlotList(slots, i + 1)

SlotResponse(slots) ==
    [net |-> "ok", status |-> 200, json |-> "valid",
     payload |-> Payload("data_list", SlotList(slots, 1), NoFeature)]

(* get_heating_values(iot_config) at time t, the features GET answered     *)
(* with the list the slots describe.                                       *)
CallGetHeatingValues(slots, t) ==
    /\ UNCHANGED <<client_vars, save_vars, hv, job_vars>>
    /\ call = NoCall
    /\ call' = [op |-> "get_heating_values", slots |-> slots, t |-> t]
    /\ ret' = get_heating_values(SlotResponse(slots), t)

(* The consumption properties _extract_gas_consumption_m3_pair is called   *)
(* with: arrays of up to MaxDayValues elements, and everything that is not *)
(* an array under day.value.                                               *)
MaxDayValues == 3
DayElements == {Float(5), Num(8), None, Str("n/a")}
GasProps ==
    {None, Other, EmptyProps}
    \cup {ConsumptionProps(d) :
              d \in {None, Num(5), ValueObj(Absent), ValueObj(None),
                     ValueObj(Num(5))}}
    \cup {ConsumptionProps(ValueObj(ListValue(a))) :
              a \in SeqsUpTo(DayElements, MaxDayValues)}

(* _extract_gas_consumption_m3_pair(consumption_props).                    *)
CallExtractGasConsumptionPair(consumption_props) ==
    /\ UNCHANGED <<client_vars, save_vars, hv, job_vars>>
    /\ call = NoCall
    /\ call' = [op |-> "_extract_gas_consumption_m3_pair",
                consumption_props |-> consumption_props]
    /\ ret' = [exc |-> "none",
               pair |-> _extract_gas_consumption_m3_pair(consumption_props)]

-----------------------------------------------------------------------------
(* Response bodies in error messages.  A text is a sequence of segments,   *)
(* each a run of characters: a JSON key with the colon and the opening     *)
(* quote ("name":"), a form key (name=), a double quote, an ampersand, a   *)
(* blank, a secret value, other text, the word <redacted>, and what a cut  *)
(* leaves of a key.                                                        *)

TokenNames == {"access_token", "refresh_token", "id_token"}
SecretNames == TokenNames \cup {"code"}
NameLen(name) ==
    CASE name = "access_token" -> 12
      [] name = "refresh_token" -> 13
      [] name = "id_token" -> 8
      [] OTHER -> 4

Segment(kind, name, len) == [kind |-> kind, name |-> name, len |-> len]
JsonKey(name) == Segment("json_key", name, NameLen(name) + 4)
FormKey(name) == Segment("form_key", name, NameLen(name) + 1)
Quote == Segment("quote", "", 1)
Amp == Segment("amp", "", 1)
Blank == Segment("blank", "", 1)
SecretLen == 20
Secret(id) == Segment("secret", id, SecretLen)
Filler(len) == Segment("filler", "", len)
Redacted == Segment("redacted", "", 10)

RECURSIVE TextLen(_)
TextLen(text) ==
    IF text = <<>> THEN 0 ELSE Head(text).len + TextLen(Tail(text))

(* seg[:n] for 0 < n < len: a part of a value is a shorter value, a part   *)
(* of a key is no key.                                                     *)
CutSegment(seg, n) ==
    IF seg.kind \in {"secret", "filler"} THEN [seg EXCEPT !.len = n]
    ELSE Segment("part_of_" \o seg.kind, seg.name, n)

(* text[:n]                                                                *)
RECURSIVE Truncate(_, _)
Truncate(text, n) ==
    IF text = <<>> \/ n <= 0 THEN <<>>
    ELSE IF Head(text).len <= n
         THEN <<Head(text)>> \o Truncate(Tail(text), n - Head(text).len)
         ELSE <<CutSegment(Head(text), n)>>

(* The segments that hold (and begin with) a double quote; those that are *)
(* an ampersand or white space.                                            *)
WithQuote == {"quote", "json_key", "part_of_json_key"}
AmpOrSpace == {"amp", "blank"}

(* The length of the longest run from position i of segments of none of    *)
(* the kinds in stops.                                                     *)
RECURSIVE RunLen(_, _, _)
RunLen(text, i, stops) ==
    IF i > Len(text) THEN 0
    ELSE IF text[i].kind \in stops THEN 0
    ELSE 1 + RunLen(text, i + 1, stops)

(* re.sub(r'("name"\s*:\s*")[^"]+(")', r'\1<redacted>\2', text): a value   *)
(* is replaced when its closing quote is in the text.                      *)
RECURSIVE SubJson(_, _, _)
SubJson(text, name, i) ==
    IF i > Len(text) THEN <<>>
    ELSE LET run == RunLen(text, i + 1, WithQuote)
             closed == /\ i + run + 1 <= Len(text)
                       /\ text[i + run + 1].kind \in WithQuote
         IN  IF text[i] = JsonKey(name) /\ run >= 1 /\ closed
             THEN <<text[i], Redacted, text[i + run + 1]>>
                  \o SubJson(text, name, i + run + 2)
             ELSE <<text[i]>> \o SubJson(text, name, i + 1)

(* re.sub(r"(name=)[^&\s]+", r"\1<redacted>", text), and for code=, where  *)
(* the value also ends at a double quote.                                  *)
RECURSIVE SubForm(_, _, _)
SubForm(text, name, i) ==
    IF i > Len(text) THEN <<>>
    ELSE LET run == RunLen(text, i + 1,
                           IF name = "code" THEN AmpOrSpace \cup WithQuote
                           ELSE AmpOrSpace)
         IN  IF text[i] = FormKey(name) /\ run >= 1
             THEN <<text[i], Redacted>> \o SubForm(text, name, i + run + 1)
             ELSE <<text[i]>> \o SubForm(text, name, i + 1)

(* _sanitize_text: the three JSON-style substitutions, the three form-     *)
(* style ones, then code=.                                                 *)
_sanitize_text(text) ==
    LET json == SubJson(SubJson(SubJson(text, "access_token", 1),
                                "refresh_token", 1), "id_token", 1)
    IN  SubForm(SubForm(SubForm(SubForm(json, "access_token", 1),
                                "refresh_token", 1), "id_token", 1),
                "code", 1)

(* The body in the error of a failing call: _sanitize_text(text[:limit]).  *)
AuthorizeBodyLimit == 500
BodyLimit == 800
ErrorBody(text, limit) == _sanitize_text(Truncate(text, limit))

(* The same text with other secret values.                                 *)
WithSecrets(text, id) ==
    [i \in 1..Len(text) |->
        IF text[i].kind = "secret" THEN [text[i] EXCEPT !.name = id]
        ELSE text[i]]

(* The bodies: text, then up to MaxFields fields that hold a secret (a     *)
(* token in JSON style, a token or a code in form style), the text so long *)
(* that the limit falls behind the fields, into a value, or before it.     *)
MaxFields == 2
JsonField(name) == <<JsonKey(name), Secret("secret-1"), Quote>>
FormField(name) == <<FormKey(name), Secret("secret-1")>>
SecretFields ==
    {JsonField(n) : n \in TokenNames} \cup {FormField(n) : n \in SecretNames}

RECURSIVE FieldSeqs(_)
FieldSeqs(k) ==
    IF k = 0 THEN {<<>>}
    ELSE {<<>>} \cup {f \o <<Amp>> \o rest :
                         f \in SecretFields, rest \in FieldSeqs(k - 1)}

Paddings(limit) == {0, limit - 30, limit - 10}
ErrorBodies(limit) ==
    {<<Filler(pad)>> \o fields :
        pad \in Paddings(limit), fields \in FieldSeqs(MaxFields)}

(* The error of a call that failed with the given body, and the error of   *)
(* the same call had the body held other secret values.                    *)
CallErrorBody(text, limit) ==
    /\ UNCHANGED <<client_vars, save_vars, hv, job_vars>>
    /\ call = NoCall
    /\ call' = [op |-> "error_body", text |-> text, limit |-> limit]
    /\ ret' = [exc |-> "CliError", body |-> ErrorBody(text, limit),
               other |-> ErrorBody(WithSecrets(text, "secret-2"), limit)]

(* PKCE.  A string is a sequence of lexemes, " " being white space; an     *)
(* option or environment variable that is not given is the empty string.   *)
RECURSIVE LStrip(_)
LStrip(s) == IF s # <<>> /\ Head(s) = " " THEN LStrip(Tail(s)) ELSE s

RECURSIVE RStrip(_)
RStrip(s) ==
    IF s # <<>> /\ s[Len(s)] = " "
    THEN RStrip(SubSeq(s, 1, Len(s) - 1))
    ELSE s

(* str.strip()                                                             *)
Strip(s) == RStrip(LStrip(s))

(* str.upper() of a lexeme.                                               *)
UpperLexeme(l) ==
    CASE l = "s256" -> "S256"
      [] l = "plain" -> "PLAIN"
      [] OTHER -> l
Upper(s) == [i \in 1..Len(s) |-> UpperLexeme(s[i])]

PkceMethods ==
    {<<>>, <<"S256">>, <<"plain">>, <<" ", "s256", " ">>, <<"PLAIN">>,
     <<"md5">>}
PkceMethodEnvs == {<<>>, <<"plain">>, <<"S512">>}
CodeVerifierArgs == {<<>>, <<"verifier-arg">>}
CodeVerifierEnvs == {<<>>, <<"verifier-env">>}

(* generate_code_verifier: 64 URL-safe characters from secrets, another    *)
(* value at every call.                                                    *)
GeneratedVerifiers == {<<"generated-1">>, <<"generated-2">>}

(* base64url(sha256(verifier)) without padding.                            *)
code_challenge_s256(verifier) == <<"base64url(sha256(">> \o verifier \o <<"))">>

code_challenge_plain(verifier) == verifier

(* a or b, for strings.                                                    *)
OrStr(a, b) == IF a # <<>> THEN a ELSE b

(* load_config, the PKCE part (lines 365-383): the Config, or CliError.    *)
load_config(pkce_method_arg, pkce_method_env, code_verifier_arg, code_verifier_env, generated) ==
    LET pkce_method ==
            Strip(OrStr(pkce_method_arg, OrStr(pkce_method_env, <<"S256">>)))
        pkce_method_upper == Upper(pkce_method)
        verifier ==
            OrStr(code_verifier_arg, OrStr(code_verifier_env, generated))
    IN  IF pkce_method_upper \notin {<<"S256">>, <<"PLAIN">>}
        THEN [exc |-> "CliError", pkce_method |-> <<>>,
              code_verifier |-> <<>>]
        ELSE [exc |-> "none",
              pkce_method |-> IF pkce_method_upper = <<"S256">>
                              THEN <<"S256">> ELSE <<"plain">>,
              code_verifier |-> verifier]

(* The PKCE parameters of POST /authorize (lines 393-407).                 *)
AuthorizeParams(cfg) ==
    IF cfg.pkce_method = <<"S256">>
    THEN [code_challenge |-> code_challenge_s256(cfg.code_verifier),
          code_challenge_method |-> <<"S256">>]
    ELSE [code_challenge |-> code_challenge_plain(cfg.code_verifier),
          code_challenge_method |-> <<"plain">>]

(* Faulty variant: the token request sends the challenge.                  *)
TokenParams_SendsChallenge(cfg, code) ==
    [grant_type |-> "authorization_code",
     code_verifier |-> AuthorizeParams(cfg).code_challenge, code |-> code]

(* The parameters of POST /token (lines 477-483).                          *)
TokenParams(cfg, code) ==
    [grant_type |-> "authorization_code", code_verifier |-> cfg.code_verifier,
     code |-> code]

FlowTokenResponses ==
    {r \in FnTokenResponses :
        /\ r.status \in {200, 400}
        /\ r.json = "object"
        /\ r.access_token \in {Str("AT-1"), Absent}}

(* The full authorization-code flow of one get_iot_config call: the        *)
(* Config made by load_config (get_iot_config.py 353), then                *)
(* request_authorization_code and exchange_code_for_token with it          *)
(* (get_iot_config.py 189-191).  What was sent, and the exception if any.  *)
AuthorizationCodeFlow(cfg, authorize_resp, token_resp) ==
    LET authorized == request_authorization_code(authorize_resp)
    IN  IF cfg.exc # "none"
        THEN [exc |-> cfg.exc, authorize |-> <<>>, token |-> <<>>]
        ELSE IF authorized.exc # "none"
        THEN [exc |-> authorized.exc, authorize |-> <<AuthorizeParams(cfg)>>,
              token |-> <<>>]
        ELSE [exc |-> exchange_code_for_token(token_resp).exc,
              authorize |-> <<AuthorizeParams(cfg)>>,
              token |-> <<TokenParams(cfg, authorized.code)>>]

CallAuthorizationCodeFlow(pkce_method_arg, pkce_method_env, code_verifier_arg, code_verifier_env, generated, authorize_resp, token_resp) ==
    /\ UNCHANGED <<client_vars, save_vars, hv, job_vars>>
    /\ call = NoCall
    /\ call' = [op |-> "authorization_code_flow",
                pkce_method_arg |-> pkce_method_arg,
                pkce_method_env |-> pkce_method_env,
                code_verifier_arg |-> code_verifier_arg,
                code_verifier_env |-> code_verifier_env,
                generated |-> generated]
    /\ ret' = AuthorizationCodeFlow(
                  load_config(pkce_method_arg, pkce_method_env,
                              code_verifier_arg, code_verifier_env,
                              generated),
                  authorize_resp, token_resp)

(* The arguments of the next call, drawn from S: none while a call is     *)
(* being made.                                                             *)
Args(S) == IF call = NoCall THEN S ELSE {}

NextFn ==
    \/ \E e \in Args(Endpoints), resp \in Args(FnListResponses) :
           CallResolver(e, resp)
    \/ \E payload \in Args(FnPayloads) : CallExtractList(payload)
    \/ \E response \in Args(FnAuthorizeResponses(MaxParams, MaxLexemes)) :
           CallExtractAuthorizationCode(response)
    \/ \E resp \in Args(FnTokenResponses) : CallExchangeCodeForToken(resp)
    \/ \E feature_path \in Args(FnPaths), resp \in Args(FnFeatureResponses) :
           CallGetSingleFeature(feature_path, resp)
    \/ \E feature_path \in Args(FnPaths),
          features_data \in Args({ListOf(l) : l \in FnFeatureLists}),
          resp \in Args({r \in FnFeatureResponses : r.status = 404}) :
           CallGetFeatureData(feature_path, features_data, resp)
    \/ \E feature_path \in Args(FnPaths), resp \in Args(FnFeatureResponses) :
           CallGetFeatureData(feature_path, NoList, resp)
    \/ \E feature_path \in Args(FeaturePaths),
          feature \in Args(FnExtractFeatures) :
           CallExtractFeatureValue(feature_path, feature)
    \/ \E feature_path \in Args(FnPaths),
          features_data \in Args({ListOf(l) : l \in FnFeatureLists}),
          resp \in Args({r \in FnFeatureResponses : r.status = 404}) :
           CallGetFeatureValue(feature_path, features_data, resp)
    \/ \E feature_path \in Args(FnPaths), resp \in Args(FnFeatureResponses) :
           CallGetFeatureValue(feature_path, NoList, resp)
    \/ \E shape \in Args(TemperatureShapes), x \in Args(ScalarValues) :
           CallExtractTemperature(shape, x)
    \/ \E slots \in Args([1..4 -> SlotKinds]), t \in Args({Now0, Now0 + 1}) :
           CallGetHeatingValues(slots, t)
    \/ \E consumption_props \in Args(GasProps) :
           CallExtractGasConsumptionPair(consumption_props)
    \/ \E limit \in Args({AuthorizeBodyLimit, BodyLimit}) :
           \E text \in Args(ErrorBodies(limit)) :
               CallErrorBody(text, limit)
    \/ \E pkce_method_arg \in Args(PkceMethods),
          pkce_method_env \in Args(PkceMethodEnvs),
          code_verifier_arg \in Args(CodeVerifierArgs),
          code_verifier_env \in Args(CodeVerifierEnvs),
          generated \in Args(GeneratedVerifiers),
          authorize_resp \in Args(AuthorizeResponses),
          token_resp \in Args(FlowTokenResponses) :
           CallAuthorizationCodeFlow(pkce_method_arg, pkce_method_env,
                                     code_verifier_arg, code_verifier_env,
                                     generated, authorize_resp, token_resp)
    \/ Return

----------------------------------------------------------------------------
(* The scheduled auto-retrieval job.                                       *)
(*                                                                         *)
(* lambda_handler is cut at its blocking calls: the fetch from the         *)
(* Viessmann API, the two table queries and the put_item of                *)
(* store_viessmann_submission, and time.sleep.  The function runs in a     *)
(* Lambda whose run time is limited (infrastructure/stacks/                *)
(* scheduler_stack.py): an invocation that is still running when the limit *)
(* is reached is ended by the runtime.                                     *)

Invocations == 2
MaxSeconds == 1

LambdaTimeout == 900
DefaultMaxRetries == 5
DefaultRetryDelaySeconds == 300
MinRetryDelaySeconds == 60
SecondsPerDay == 86400

(* The schedule fires at 06:00 of day 2.                                   *)
Wall0 == 2 * SecondsPerDay + SecondsPerDay \div 4

Jobs == 1..Invocations

NoItem == [timestamp_utc |-> 0, datum_iso |-> [fmt |-> "", day |-> 0],
           submission_id |-> <<>>, betriebsstunden |-> 0, starts |-> 0,
           delta_betriebsstunden |-> 0, delta_starts |-> 0]

NoMapped == [datum |-> [fmt |-> "", day |-> 0], betriebsstunden |-> 0,
             starts |-> 0]

NoJob == [pc |-> "idle", max_retries |-> 0, retry_delay_seconds |-> 0,
          user_id |-> <<>>, start |-> 0, attempt |-> 0, tried |-> 0,
          sleeps |-> 0, until |-> 0, alerts |-> 0, statusCode |-> 0,
          body |-> "", mapped |-> NoMapped, item |-> NoItem, puts |-> 0]

(* The parameter store.  A parameter is a string, or has no value       *)
(* (missing parameter, empty value, or get_parameter failed); a user id is *)
(* a sequence of lexemes, " " being white space.                           *)
SsmParameters ==
    {[MaxRetries |-> Absent, RetryDelaySeconds |-> Absent, UserId |-> <<>>],
     [MaxRetries |-> Absent, RetryDelaySeconds |-> Absent,
      UserId |-> <<" ", "user-1", " ">>],
     [MaxRetries |-> Str("2"), RetryDelaySeconds |-> Str("30"),
      UserId |-> <<"user-1">>],
     [MaxRetries |-> Str("0"), RetryDelaySeconds |-> Str("five"),
      UserId |-> <<"user-1">>],
     [MaxRetries |-> Str("five"), RetryDelaySeconds |-> Str(""),
      UserId |-> <<" ">>]}

(* _get_ssm_param: the parameter's value, or the default when there is     *)
(* none.                                                                   *)
_get_ssm_param(value, default) ==
    IF value.t = "str" /\ value.s # "" THEN value.s ELSE default

(* int(s) for the strings of the model, with the fallback of _load_config  *)
(* on ValueError.                                                          *)
SsmInts == {0, 2, 30, DefaultMaxRetries, DefaultRetryDelaySeconds}
IntOr(s, fallback) ==
    IF \E k \in SsmInts : Decimal(k) = s
    THEN CHOOSE k \in SsmInts : Decimal(k) = s
    ELSE fallback

Largest(a, b) == IF a >= b THEN a ELSE b

_load_config(MaxRetries, RetryDelaySeconds, UserId) ==
    LET max_retries_str ==
            _get_ssm_param(MaxRetries, Decimal(DefaultMaxRetries))
        retry_delay_str ==
            _get_ssm_param(RetryDelaySeconds,
                           Decimal(DefaultRetryDelaySeconds))
        user_id == IF UserId = <<>> THEN <<"SET_ME">> ELSE UserId
    IN  [max_retries |->
             Largest(1, IntOr(max_retries_str, DefaultMaxRetries)),
         retry_delay_seconds |->
             Largest(MinRetryDelaySeconds,
                     IntOr(retry_delay_str, DefaultRetryDelaySeconds)),
         user_id |-> Strip(user_id)]

(* Dates.  A date is the number of its day; its two written forms are      *)
(* kept apart.                                                             *)
DayOf(t) == t \div SecondsPerDay
_format_datum(dt) == [fmt |-> "dd.mm.yyyy", day |-> DayOf(dt)]
_datum_to_iso(datum) == [fmt |-> "YYYY-MM-DD", day |-> datum.day]

(* generate_timestamp_utc: the time of day to the second.                  *)
generate_timestamp_utc == wall

(* What get_heating_values returned: the two counters, each an int or      *)
(* None.                                                                   *)
HeatingReadings ==
    {[betriebsstunden |-> b, starts |-> s] :
        b \in {Num(100), None}, s \in {Num(5), None}} \
    {[betriebsstunden |-> None, starts |-> Num(5)]}

IntOrZero(v) == IF v = None THEN 0 ELSE v.n

(* _viessmann_to_submission_values: the date is yesterday's.               *)
_viessmann_to_submission_values(values) ==
    [datum |-> _format_datum(wall - SecondsPerDay),
     betriebsstunden |-> IntOrZero(values.betriebsstunden),
     starts |-> IntOrZero(values.starts)]

(* The table.  Its key is (user_id, timestamp_utc); a Query reads the      *)
(* items of the user in the order of timestamp_utc.                        *)
Oldest(items) ==
    CHOOSE i \in items : \A k \in items : i.timestamp_utc <= k.timestamp_utc
Latest(items) ==
    CHOOSE i \in items : \A k \in items : i.timestamp_utc >= k.timestamp_utc

(* The duplicate check: Query with FilterExpression datum_iso = :datum_iso *)
(* and Limit=1.  DynamoDB applies Limit to the items it reads, before the  *)
(* filter: the query reads the first item of the user and returns it if    *)
(* it passes the filter.                                                   *)
DuplicateQuery(items, datum_iso) ==
    IF items = {} THEN {}
    ELSE IF Oldest(items).datum_iso = datum_iso THEN {Oldest(items)}
    ELSE {}

(* The previous submission: Query with ScanIndexForward=False, Limit=1.    *)
PreviousQuery(items) == IF items = {} THEN {} ELSE {Latest(items)}

(* put_item: an item with the same key is replaced.                        *)
PutItem(items, item) ==
    {i \in items : i.timestamp_utc # item.timestamp_utc} \cup {item}

(* The tables the job can find: empty, or the submission of the day        *)
(* before, stored by the run of that day.                                  *)
EarlierItem ==
    [timestamp_utc |-> Wall0 - SecondsPerDay,
     datum_iso |-> _datum_to_iso(_format_datum(Wall0 - 2 * SecondsPerDay)),
     submission_id |-> <<0, 1>>, betriebsstunden |-> 90, starts |-> 4,
     delta_betriebsstunden |-> 0, delta_starts |-> 0]

InitTables == {{}, {EarlierItem}}

JobFinished(j) == jobs[j].pc \in {"returned", "raised", "timed_out"}
JobRunning(j) == jobs[j].pc # "idle" /\ ~JobFinished(j)
Deadline(j) == jobs[j].start + LambdaTimeout
InTime(j) == wall < Deadline(j)

SetJob(j, job) ==
    /\ jobs' = [jobs EXCEPT ![j] = job]
    /\ UNCHANGED <<client_vars, save_vars, hv, fn_vars>>

(* _publish_failure_alert and return 500: one client.publish call.         *)
FailWith(job, body) ==
    [job EXCEPT !.pc = "returned", !.alerts = @ + 1, !.statusCode = 500,
                !.body = body]

(* The except branch of the retry loop (lines 188-198).                    *)
AttemptFailed(job) ==
    LET failed == [job EXCEPT !.mapped = NoMapped, !.item = NoItem]
    IN  IF job.attempt < job.max_retries
        THEN [failed EXCEPT !.pc = "sleeping", !.sleeps = @ + 1,
                            !.until = wall + job.retry_delay_seconds]
        ELSE FailWith(failed, "all attempts failed")

(* lambda_handler up to the first attempt (lines 142-164).                 *)
Invoke(j, secret_ok) ==
    /\ jobs[j].pc = "idle"
    /\ LET config == _load_config(ssm.MaxRetries, ssm.RetryDelaySeconds,
                                  ssm.UserId)
           job == [jobs[j] EXCEPT
                       !.max_retries = config.max_retries,
                       !.retry_delay_seconds = config.retry_delay_seconds,
                       !.user_id = config.user_id,
                       !.start = wall]
       IN  IF config.user_id = <<>> \/ config.user_id = <<"SET_ME">>
           THEN SetJob(j, FailWith(job, "not configured"))
           ELSE IF ~secret_ok
           THEN SetJob(j, [job EXCEPT !.pc = "raised"])
           ELSE SetJob(j, [job EXCEPT !.pc = "attempt", !.attempt = 1])
    /\ UNCHANGED <<ssm, wall, wall_ticks, table>>

(* One attempt, from get_iot_config to the duplicate check of              *)
(* store_viessmann_submission (lines 165-179; viessmann_submit.py          *)
(* 115-128).  fetched is FALSE when get_iot_config or get_heating_values   *)
(* raised.                                                                 *)
Attempt(j, fetched, values) ==
    /\ jobs[j].pc = "attempt"
    /\ InTime(j)
    /\ LET job == [jobs[j] EXCEPT !.tried = @ + 1]
       IN  IF ~fetched
              \/ (values.betriebsstunden = None /\ values.starts = None)
           THEN SetJob(j, AttemptFailed(job))
           ELSE SetJob(j, [job EXCEPT
                    !.pc = "duplicate_check",
                    !.mapped = _viessmann_to_submission_values(values)])
    /\ UNCHANGED <<ssm, wall, wall_ticks, table>>

(* The answer to the duplicate check (viessmann_submit.py 129-143): a      *)
(* duplicate ends the call with (False, None) and the handler with 200;    *)
(* a failed query is logged and the call goes on.                          *)
DuplicateChecked(j, answered) ==
    /\ jobs[j].pc = "duplicate_check"
    /\ InTime(j)
    /\ LET job == jobs[j]
           items == DuplicateQuery(table, _datum_to_iso(job.mapped.datum))
       IN  IF answered /\ items # {}
           THEN SetJob(j, [job EXCEPT !.pc = "returned", !.statusCode = 200,
                                      !.body = "skipped"])
           ELSE SetJob(j, [job EXCEPT !.pc = "previous_query"])
    /\ UNCHANGED <<ssm, wall, wall_ticks, table>>

(* The answer to the query for the previous submission, the deltas and    *)
(* create_submission (viessmann_submit.py 144-185).                        *)
PreviousQueried(j, answered) ==
    /\ jobs[j].pc = "previous_query"
    /\ InTime(j)
    /\ LET job == jobs[j]
           items == IF answered THEN PreviousQuery(table) ELSE {}
           previous_item == CHOOSE i \in items : TRUE
           given == items # {}
       IN  SetJob(j, [job EXCEPT
               !.pc = "put_item",
               !.item =
                   [timestamp_utc |-> generate_timestamp_utc,
                    datum_iso |-> _datum_to_iso(job.mapped.datum),
                    submission_id |-> <<j, job.attempt>>,
                    betriebsstunden |-> job.mapped.betriebsstunden,
                    starts |-> job.mapped.starts,
                    delta_betriebsstunden |->
                        IF given
                        THEN job.mapped.betriebsstunden
                                 - previous_item.betriebsstunden
                        ELSE 0,
                    delta_starts |->
                        IF given
                        THEN job.mapped.starts - previous_item.starts
                        ELSE 0]])
    /\ UNCHANGED <<ssm, wall, wall_ticks, table>>

(* put_item and the return of the handler (viessmann_submit.py 185-186,    *)
(* lines 181-183); a put_item that raised fails the attempt.               *)
ItemPut(j, done) ==
    /\ jobs[j].pc = "put_item"
    /\ InTime(j)
    /\ LET job == jobs[j]
       IN  IF done
           THEN /\ table' = PutItem(table, job.item)
                /\ SetJob(j, [job EXCEPT !.pc = "returned", !.puts = @ + 1,
                                         !.statusCode = 200,
                                         !.body = "submission_id"])
           ELSE /\ table' = table
                /\ SetJob(j, AttemptFailed(job))
    /\ UNCHANGED <<ssm, wall, wall_ticks>>

(* time.sleep returns: the next iteration of the loop.                     *)
Wake(j) ==
    /\ jobs[j].pc = "sleeping"
    /\ jobs[j].until <= wall
    /\ InTime(j)
    /\ SetJob(j, [jobs[j] EXCEPT !.pc = "attempt", !.attempt = @ + 1])
    /\ UNCHANGED <<ssm, wall, wall_ticks, table>>

(* The Lambda runtime ends an invocation that has run for the configured   *)
(* timeout.                                                                *)
TimedOut(j) ==
    /\ JobRunning(j)
    /\ ~InTime(j)
    /\ SetJob(j, [jobs[j] EXCEPT !.pc = "timed_out"])
    /\ UNCHANGED <<ssm, wall, wall_ticks, table>>

(* A second passes.                                                        *)
Second ==
    /\ wall_ticks < MaxSeconds
    /\ wall' = wall + 1
    /\ wall_ticks' = wall_ticks + 1
    /\ UNCHANGED <<ssm, table, jobs>>
    /\ UNCHANGED <<client_vars, save_vars, hv, fn_vars>>

(* Time passes while jobs sleep, up to the next moment at which a sleeping *)
(* job wakes or is ended; a job whose sleep is over wakes before more time *)
(* passes.                                                                 *)
Sleeping == {j \in Jobs : jobs[j].pc = "sleeping"}

Moments ==
    {t \in {jobs[j].until : j \in Sleeping}
           \cup {Deadline(j) : j \in Sleeping} : t > wall}

Sleep ==
    /\ Moments # {}
    /\ \A j \in Sleeping : wall < jobs[j].until
    /\ wall' = CHOOSE t \in Moments : \A u \in Moments : t <= u
    /\ UNCHANGED <<ssm, wall_ticks, table, jobs>>
    /\ UNCHANGED <<client_vars, save_vars, hv, fn_vars>>

JobIdle ==
    /\ ssm = [MaxRetries |-> Absent, RetryDelaySeconds |-> Absent,
              UserId |-> <<>>]
    /\ wall = Wall0
    /\ wall_ticks = 0
    /\ table = {}
    /\ jobs = [j \in Jobs |-> NoJob]

JobInit ==
    /\ ssm \in SsmParameters
    /\ wall = Wall0
    /\ wall_ticks = 0
    /\ table \in InitTables
    /\ jobs = [j \in Jobs |-> NoJob]

JobNext ==
    \/ \E j \in Jobs, secret_ok \in BOOLEAN : Invoke(j, secret_ok)
    \/ \E j \in Jobs, fetched \in BOOLEAN, values \in HeatingReadings :
           Attempt(j, fetched, values)
    \/ \E j \in Jobs, answered \in BOOLEAN : DuplicateChecked(j, answered)
    \/ \E j \in Jobs, answered \in BOOLEAN : PreviousQueried(j, answered)
    \/ \E j \in Jobs, done \in BOOLEAN : ItemPut(j, done)
    \/ \E j \in Jobs : Wake(j)
    \/ \E j \in Jobs : TimedOut(j)
    \/ Second
    \/ Sleep

HeatingIdle == hv = NoHeating

FnIdle ==
    /\ call = NoCall
    /\ ret = NoRet

vars == <<client_vars, save_vars, hv, fn_vars, job_vars>>

Init == ClientInit /\ SaveIdle /\ HeatingIdle /\ FnIdle /\ JobIdle
Next == ClientNext
Spec == Init /\ [][Next]_vars

(* Every request carries a timeout (timeout=cfg.timeout_seconds), so each  *)
(* pending request is answered: by a response or by requests' Timeout.     *)
Respond ==
    \/ \E resp \in TokenResponses : RefreshResponse(resp)
    \/ \E resp \in AuthorizeResponses : AuthorizeResponse(resp)
    \/ \E resp \in TokenResponses : ExchangeResponse(resp)
    \/ \E resp \in InstallationsResponses : InstallationsResponse(resp)
    \/ \E resp \in GatewaysResponses : GatewaysResponse(resp)
    \/ \E resp \in DevicesResponses : DevicesResponse(resp)
    \/ \E resp \in FeaturesResponses : FeaturesResponse(resp)

(* get_iot_config calls made back to back, the clock standing still (the   *)
(* initial cache files lie on both sides of the expiry), each followed or  *)
(* not by get_heating_values with the configuration it returned.           *)
NextLive ==
    \/ \E d \in BOOLEAN : Start(d, 0)
    \/ HeatingValues
    \/ Respond

SpecLive == Init /\ [][NextLive]_vars /\ WF_vars(Respond)

(* get_iot_config calls of a client that starts with no cache file or an   *)
(* empty one.                                                              *)
InitFresh == Init /\ file.kind \in {"missing", "not_json"}
SpecFresh == InitFresh /\ [][Next]_vars

InitSave == ClientIdle /\ SaveInit /\ HeatingIdle /\ FnIdle /\ JobIdle
SpecSave == InitSave /\ [][SaveNext]_vars

InitFn == ClientIdle /\ SaveIdle /\ HeatingIdle /\ FnIdle /\ JobIdle
SpecFn == InitFn /\ [][NextFn]_vars

(* Invocations of the scheduled job, one after another or overlapping      *)
(* (the schedule's rule delivers at least once, and a failed asynchronous  *)
(* invocation is invoked again).                                           *)
InitJob == ClientIdle /\ SaveIdle /\ HeatingIdle /\ FnIdle /\ JobInit
SpecJob == InitJob /\ [][JobNext]_vars

SaveTypeOK ==
    /\ \A n \in DOMAIN dir : dir[n] \in 0..Len(inodes)
    /\ \A w \in Writers :
           /\ writers[w].pc \in {"start", "open", "written", "chmodded",
                                 "returned", "FileNotFoundError"}
           /\ writers[w].off \in 0..RecordChunks

TypeOK == pc \in {"idle", "await_refresh", "await_authorize", "await_token",
                  "await_inst", "await_gw", "await_dev"}

----------------------------------------------------------------------------
(* Vocabulary of the properties.                                           *)

(* The record the running (or last) call loaded is usable: a non-empty     *)
(* access_token and a numeric expires_at.                                  *)
LoadedUsable ==
    /\ cache_path
    /\ cached.found
    /\ Truthy(Get(cached.rec.access_token))
    /\ Get(cached.rec.expires_at).t = "int"

(* now < expires_at - 300 for the loaded record.                           *)
LoadedFresh == gvt_now + 300 < cached.rec.expires_at.n

(* get_valid_token returned the cached values, with no request and no      *)
(* cache write.                                                            *)
ReturnedCached ==
    /\ tok.returned
    /\ tok.path = "hit"
    /\ tok.access_token = cached.rec.access_token
    /\ tok.refresh_token = Get(cached.rec.refresh_token)
    /\ tok.installation_id = Get(cached.rec.installation_id)
    /\ tok.gateway_serial = Get(cached.rec.gateway_serial)
    /\ tok.device_id = Get(cached.rec.device_id)
    /\ tok.posts = 0
    /\ tok.writes = 0

Gets == SelectSeq(reqs, LAMBDA r : r.method = "GET")
Posts == SelectSeq(reqs, LAMBDA r : r.method = "POST")

(* A token response that the token endpoint contract calls successful.     *)
TokenSucceeds(resp) ==
    /\ resp.net = "ok"
    /\ resp.status = 200
    /\ resp.json = "object"
    /\ resp.access_token.t = "str"
    /\ resp.access_token.s # ""

IdKeys == {"installation_id", "gateway_serial", "device_id"}

(* C1: with a usable cache record, get_valid_token returns the cached      *)
(* values without any request or cache write exactly when                  *)
(* now < expires_at - 300; a record without expires_at is never reused.    *)
C1_CacheHitIffFresh ==
    /\ LoadedUsable => (LoadedFresh <=> ReturnedCached)
    /\ tok.path = "hit" =>
           (cached.found /\ Get(cached.rec.expires_at) # None)

(* C1 witness: expires_at = now + 301 is a cache hit.                      *)
C1_Witness ==
    /\ LoadedUsable
    /\ cached.rec.expires_at.n = gvt_now + 301
    /\ ReturnedCached

(* C2: a successful refresh of a stale record is one POST with             *)
(* grant_type=refresh_token and no /authorize; the refreshed token is      *)
(* returned and the file then holds it with the equipment ids the          *)
(* previous record contained.                                              *)
C2_RefreshKeepsIds ==
    [][\A resp \in TokenResponses :
          (RefreshResponse(resp) /\ TokenSucceeds(resp)) =>
              /\ LoadedUsable /\ ~LoadedFresh
              /\ tok'.returned
              /\ tok'.access_token = resp.access_token
              /\ tok'.posts = 1
              /\ Len(Posts') = 1
              /\ Posts'[1].url = TokenUrl
              /\ Posts'[1].grant = "refresh_token"
              /\ file'.kind = "json_object"
              /\ file'.rec.access_token = resp.access_token
              /\ \A k \in IdKeys :
                     Truthy(Get(cached.rec[k])) => file'.rec[k] = cached.rec[k]
       ]_vars

(* C2 witness: a refreshed token is in the file next to the old ids.       *)
C2_Witness ==
    /\ tok.returned
    /\ tok.path = "refresh"
    /\ tok.access_token # cached.rec.access_token
    /\ file.rec.access_token = tok.access_token
    /\ cached.rec.device_id = Str("eq-0")
    /\ file.rec.device_id = Str("eq-0")

(* C3 (as claimed): no call ends by raising out of the refresh request;    *)
(* every failed refresh goes on to POST /authorize.                        *)
C3_RefreshFailureNeverPropagates ==
    ~(/\ result.status = "raised"
      /\ Len(reqs) = 1
      /\ reqs[1].grant = "refresh_token")

C5_CacheNeverFailsTheCall ==
    (cache_path /\ ~LoadedUsable) =>
        /\ ~(result.status = "raised" /\ reqs = <<>>)
        /\ reqs # <<>> => reqs[1].url = AuthorizeUrl

(* The token that the latest cache-enabled resolution used is still valid  *)
(* at the call that is running (or has just ended).                        *)
LaterCallInValidity ==
    /\ last_resolved.done
    /\ last_resolved.earlier
    /\ cache_path
    /\ gvt_now + 300 < last_resolved.expires_at.n

SameIdsNoGets ==
    /\ Gets = <<>>
    /\ pc = "idle"
    /\ result.status = "ok"
    /\ result.installation_id = last_resolved.installation_id
    /\ result.gateway_serial = last_resolved.gateway_serial
    /\ result.device_id = last_resolved.device_id

Usable(v) == (v.t = "str" /\ v.s # "") \/ v.t = "int"
Resolvable ==
    {resp \in InstallationsResponses \cup GatewaysResponses \cup DevicesResponses :
        /\ resp.net = "ok" /\ resp.status = 200 /\ resp.json = "valid"
        /\ \/ /\ resp.payload.shape \in {"data_list", "bare_list"}
              /\ resp.payload.list # <<>>
              /\ \A i \in DOMAIN resp.payload.list : resp.payload.list[i].dict
              /\ Usable(resp.payload.list[1].id)
                     \/ Usable(resp.payload.list[1].serial)
           \/ /\ resp.payload.shape = "data_object"
              /\ Usable(resp.payload.obj.id) \/ Usable(resp.payload.obj.serial)}

(* The first element of a list payload, as the provider sent it.           *)
FirstOf(payload) ==
    IF payload.shape = "data_object" THEN payload.obj ELSE payload.list[1]

(* Where the call stands agrees with the GETs it has issued: one request   *)
(* at a time, installations, then gateways, then devices.                  *)
StepOrder ==
    /\ Len(Gets) <= 3
    /\ Len(Gets) >= 1 => Gets[1].url = <<"installations">>
    /\ Len(Gets) >= 2 => Gets[2].url = <<"gateways">>
    /\ Len(Gets) = 3 =>
           Gets[3].url = <<"installations", ToStr(eq.installation_id),
                           "gateways", ToStr(eq.gateway_serial), "devices">>
    /\ pc \in {"await_refresh", "await_authorize", "await_token"} =>
           Gets = <<>>
    /\ pc = "await_inst" =>
           Len(Gets) = 1 /\ eq.installation_id = None /\ eq.gateway_serial = None
    /\ pc = "await_gw" =>
           Len(Gets) = 2 /\ eq.installation_id # None /\ eq.gateway_serial = None
    /\ pc = "await_dev" =>
           Len(Gets) = 3 /\ eq.installation_id # None /\ eq.gateway_serial # None
    /\ result.status = "raised" => pc = "idle"

(* C9: installations, gateways and devices are requested one after the     *)
(* other, each after the answer to the one before; the devices URL is      *)
(* built from the two answers; a failed step ends the call without a       *)
(* further GET.                                                            *)
C9_ResolutionOrder ==
    /\ []StepOrder
    /\ [][
       /\ (pc = "await_inst" /\ pc' # pc) =>
          \A resp \in InstallationsResponses :
              \/ IF resp \in Resolvable
                 THEN /\ eq'.installation_id =
                             Str(ToStr(FirstOf(resp.payload).id))
                      /\ Len(Gets') = 2
                 ELSE Gets' = Gets /\ result'.status = "raised"
              \/ ~InstallationsResponse(resp)
       /\ (pc = "await_gw" /\ pc' # pc) =>
          \A resp \in GatewaysResponses :
              \/ IF resp \in Resolvable
                 THEN /\ eq'.installation_id = eq.installation_id
                      /\ eq'.gateway_serial =
                             Str(ToStr(FirstOf(resp.payload).serial))
                      /\ Len(Gets') = 3
                 ELSE Gets' = Gets /\ result'.status = "raised"
              \/ ~GatewaysResponse(resp)
       /\ (pc = "await_dev" /\ pc' # pc) => Gets' = Gets /\ pc' = "idle"
      ]_vars

(* C9 witness: a call resolved installation 7 and gateway gw-1 and asked   *)
(* for the devices of exactly those.                                       *)
C9_Witness ==
    /\ pc = "idle"
    /\ result.status = "ok"
    /\ Len(Gets) = 3
    /\ Gets[3].url = <<"installations", "7", "gateways", "gw-1", "devices">>

(* What a successful call with the cache disabled has done.                *)
DisabledRun ==
    /\ Len(reqs) = 5
    /\ reqs[1].method = "POST" /\ reqs[1].url = AuthorizeUrl
    /\ reqs[2].method = "POST" /\ reqs[2].url = TokenUrl
    /\ reqs[2].grant = "authorization_code"
    /\ \A i \in 3..5 :
           /\ reqs[i].method = "GET"
           /\ reqs[i].bearer = tok.access_token.s
           /\ reqs[i].bearer # ""
    /\ reqs[3].url = <<"installations">>
    /\ reqs[4].url = <<"gateways">>
    /\ reqs[5].url = <<"installations", result.installation_id.s,
                       "gateways", result.gateway_serial.s, "devices">>
    /\ result.access_token = tok.access_token
    /\ result.installation_id = eq.installation_id
    /\ result.gateway_serial = eq.gateway_serial

CompleteRecords == {Record(w) : w \in Writers} \cup {EarlierRecord}

(* C6 (as claimed): whatever the interleaving of saves and reads, a read   *)
(* of the cache path sees no file or the complete record of one save.      *)
C6_ReaderSeesCompleteRecord ==
    observed \in {NotRead, NoFileSeen} \cup CompleteRecords

(* C7 (as claimed): concurrent saves to one path all return without        *)
(* raising, and the file then holds the record of one of them.             *)
C7_ConcurrentSavesComplete ==
    /\ \A w \in Writers : writers[w].pc # "FileNotFoundError"
    /\ (\A w \in Writers : writers[w].pc = "returned") =>
           /\ dir["cache"] # NoInode
           /\ inodes[dir["cache"]].content \in {Record(w) : w \in Writers}

(* The position of a running get_iot_config call, counted in the requests *)
(* it can still have to wait for.                                          *)
Rank(p) ==
    CASE p = "await_refresh" -> 6
      [] p = "await_authorize" -> 5
      [] p = "await_token" -> 4
      [] p = "await_inst" -> 3
      [] p = "await_gw" -> 2
      [] p = "await_dev" -> 1
      [] OTHER -> 0

(* An operation is running: get_iot_config or get_heating_values.          *)
Running == pc # "idle" \/ hv.status = "running"

(* The requests of one operation: at most one refresh POST, one authorize  *)
(* POST and one token POST, at most three GETs, no request twice; one GET  *)
(* for get_heating_values.                                                 *)
RequestBudget ==
    /\ Len(SelectSeq(Posts, LAMBDA r : r.grant = "refresh_token")) <= 1
    /\ Len(SelectSeq(Posts, LAMBDA r : r.url = AuthorizeUrl)) <= 1
    /\ Len(SelectSeq(Posts, LAMBDA r : r.grant = "authorization_code")) <= 1
    /\ Len(Posts) <= 3
    /\ Len(Gets) <= 3
    /\ \A i, j \in 1..Len(reqs) : reqs[i] = reqs[j] => i = j
    /\ hv.status # "none" => Len(hv.reqs) = 1 /\ hv.reqs[1].method = "GET"
    /\ result.status = "raised" => pc = "idle"

(* get_iot_config has ended with an exception and no further request.      *)
EndedRaising ==
    /\ pc' = "idle"
    /\ reqs' = reqs
    /\ result'.status = "raised"

(* A step of a running operation ends it, or brings it one request closer  *)
(* to its end.                                                             *)
StepAdvances ==
    /\ pc # "idle" =>
           \/ pc' = "idle" /\ reqs' = reqs
           \/ /\ Rank(pc') < Rank(pc)
              /\ pc' # "idle"
              /\ Len(reqs') = Len(reqs) + 1
              /\ SubSeq(reqs', 1, Len(reqs)) = reqs
    /\ hv.status = "running" =>
           /\ hv'.status \in {"ok", "raised"}
           /\ hv'.reqs = hv.reqs

(* A response that is a failure ends the operation; only the refresh       *)
(* request that fails with CliError is followed by the authorize POST.     *)
FailureEnds ==
    /\ pc = "await_refresh" =>
           \A resp \in TokenResponses :
               refresh_access_token(resp).exc \notin {"none", "CliError"} =>
                   EndedRaising \/ ~RefreshResponse(resp)
    /\ pc = "await_refresh" =>
           \A resp \in TokenResponses :
               refresh_access_token(resp).exc = "CliError" =>
                   \/ /\ pc' = "await_authorize"
                      /\ reqs' = Append(reqs, Post(AuthorizeUrl, "", ""))
                   \/ ~RefreshResponse(resp)
    /\ pc = "await_authorize" =>
           \A resp \in AuthorizeResponses :
               request_authorization_code(resp).exc # "none" =>
                   EndedRaising \/ ~AuthorizeResponse(resp)
    /\ pc = "await_token" =>
           \A resp \in TokenResponses :
               exchange_code_for_token(resp).exc # "none" =>
                   EndedRaising \/ ~ExchangeResponse(resp)
    /\ pc = "await_inst" =>
           \A resp \in InstallationsResponses :
               get_installation_id(resp).exc # "none" =>
                   EndedRaising \/ ~InstallationsResponse(resp)
    /\ pc = "await_gw" =>
           \A resp \in GatewaysResponses :
               get_gateway_serial(resp).exc # "none" =>
                   EndedRaising \/ ~GatewaysResponse(resp)
    /\ pc = "await_dev" =>
           \A resp \in DevicesResponses :
               get_device_id(resp).exc # "none" =>
                   EndedRaising \/ ~DevicesResponse(resp)
    /\ hv.status = "running" =>
           \A resp \in FeaturesResponses :
               get_device_features(resp).exc # "none" =>
                   \/ hv'.status = "raised" /\ hv'.reqs = hv.reqs
                   \/ ~FeaturesResponse(resp)

(* C11: an operation issues each of its requests at most once (at most     *)
(* one refresh, one authorize and one token POST, at most three GETs,      *)
(* exactly one GET for get_heating_values), a failed or timed-out request  *)
(* ends it with no further request (only a refresh that fails with         *)
(* CliError is followed by the authorize POST), and every operation that   *)
(* is running terminates.                                                  *)
C11_BoundedRequestsAndTermination ==
    /\ []RequestBudget
    /\ [][StepAdvances /\ FailureEnds]_vars
    /\ Running ~> ~Running

(* All six requests of a call (failed refresh, authorize, token, three     *)
(* GETs), then get_heating_values has returned after its GET.              *)
C11_Witness ==
    /\ pc = "idle"
    /\ Len(Posts) = 3
    /\ Len(Gets) = 3
    /\ result.status = "ok"
    /\ hv.status = "ok"
    /\ Len(hv.reqs) = 1

(* The first element's field of the normalized list of the response the    *)
(* resolver was called with.                                               *)
ResolverList == _extract_list(call.resp.payload).items
ResolverField ==
    Get(IF call.endpoint.key = "id" THEN ResolverList[1].id
        ELSE ResolverList[1].serial)

(* C12 (as claimed): a resolver returns the required field of the first    *)
(* element of the normalized list as a string, whatever follows it, and    *)
(* fails, naming the URL and the list or field, exactly when the list is   *)
(* empty or that field is missing, null, empty, or neither a string nor    *)
(* an integer.                                                             *)
C12_ResolverFirstElement ==
    call.op = "resolver" /\ _extract_list(call.resp.payload).ok =>
        IF ResolverList = <<>>
        THEN /\ ret.exc = "CliError"
             /\ ret.msg.url = call.endpoint.url
             /\ ret.msg.what = call.endpoint.what
        ELSE IF \/ ResolverField \in {None, Str("")}
                \/ ResolverField.t \notin {"str", "int"}
        THEN /\ ret.exc = "CliError"
             /\ ret.msg.url = call.endpoint.url
             /\ ret.msg.key = call.endpoint.key
        ELSE /\ ret.exc = "none"
             /\ ret.v = Str(ToStr(ResolverField))

(* C13: _extract_list maps {"data": X}, {"data": [X]} and [X] to the same  *)
(* one-item list <<X>> for every object X; {"data": [...]} and a bare      *)
(* list yield their items in order; every other shape, and a list with an  *)
(* item that is not an object, is an error.                                *)
C13_EnvelopeNormalization ==
    call.op = "_extract_list" =>
        LET payload == call.payload
        IN  CASE payload.shape = "data_object" ->
                     /\ ret.exc = "none"
                     /\ ret.items = <<payload.obj>>
                     /\ \A sh \in {"data_list", "bare_list"} :
                            _extract_list(Payload(sh, <<payload.obj>>,
                                                  NotAnObject))
                                = [ok |-> TRUE, items |-> ret.items]
              [] payload.shape \in {"data_list", "bare_list"} ->
                     IF \A i \in 1..Len(payload.list) : payload.list[i].dict
                     THEN /\ ret.exc = "none"
                          /\ ret.items = payload.list
                     ELSE ret.exc = "CliError"
              [] OTHER -> ret.exc = "CliError"

(* {"data": X} for an object X has been normalized to the one-item list.   *)
C13_Witness ==
    /\ call.op = "_extract_list"
    /\ call.payload.shape = "data_object"
    /\ ret.items = <<call.payload.obj>>
    /\ call.payload.obj.id = Num(7)

(* The positions of the non-empty code parameters of a query string.       *)
CodeParams(query) ==
    {i \in 1..Len(query) : query[i][1] = "code" /\ query[i][2] # ""}

(* The positions in a body where code= is followed by a character that is  *)
(* not a double quote, an ampersand or whitespace.                         *)
CodeTokens(text) ==
    {i \in 1..(Len(text) - 1) :
        text[i] = "code=" /\ text[i + 1] \notin Stoppers}

Min(S) == CHOOSE i \in S : \A j \in S : i <= j

RECURSIVE Concat(_, _, _)
(* The lexemes of text from position i up to position j, as one string.    *)
Concat(text, i, j) ==
    IF i > j THEN "" ELSE text[i] \o Concat(text, i + 1, j)

(* The token after the code= at position i: up to the next stopper.        *)
TokenAt(text, i) ==
    LET ends == {j \in (i + 1)..Len(text) : text[j] \in Stoppers}
    IN  Concat(text, i + 1, IF ends = {} THEN Len(text) ELSE Min(ends) - 1)

(* C14: extract_authorization_code returns the first non-empty code of     *)
(* the Location header's query, else of the final URL's query, else the    *)
(* token after code= in the body; it raises exactly when none of the       *)
(* three yields a code.                                                    *)
C14_CodeExtractionOrder ==
    call.op = "extract_authorization_code" =>
        LET response == call.response
            in_location == IF response.location.set
                           THEN CodeParams(response.location.query) ELSE {}
            in_url == IF response.url.set
                      THEN CodeParams(response.url.query) ELSE {}
            in_body == CodeTokens(response.text)
        IN  IF in_location # {}
            THEN ret = [exc |-> "none",
                        code |-> response.location.query[Min(in_location)][2]]
            ELSE IF in_url # {}
            THEN ret = [exc |-> "none",
                        code |-> response.url.query[Min(in_url)][2]]
            ELSE IF in_body # {}
            THEN ret = [exc |-> "none",
                        code |-> TokenAt(response.text, Min(in_body))]
            ELSE ret.exc = "CliError"

(* A response with a code in the Location header, another in the final     *)
(* URL and another in the body: the Location header's code is returned.    *)
C14_Witness ==
    /\ call.op = "extract_authorization_code"
    /\ call.response.location.set
    /\ CodeParams(call.response.location.query) # {}
    /\ CodeParams(call.response.url.query) # {}
    /\ CodeTokens(call.response.text) # {}
    /\ ret.code = "location-code"

(* C15: an /authorize response with status >= 400 ends the call with       *)
(* CliError whether or not it carries a code, and no /token request        *)
(* follows; a response with a status below 400 goes to code extraction,    *)
(* whose code is sent to /token; the authorize POST never follows a        *)
(* redirect.                                                               *)
C15_AuthorizeStatusFatal ==
    /\ [](\A i \in 1..Len(reqs) :
             reqs[i].url = AuthorizeUrl => ~reqs[i].allow_redirects)
    /\ [][pc = "await_authorize" =>
             \A resp \in AuthorizeResponses :
                 \/ ~AuthorizeResponse(resp)
                 \/ resp.net # "ok"
                 \/ /\ resp.status >= 400
                    /\ pc' = "idle"
                    /\ result' = Raised("CliError")
                    /\ reqs' = reqs
                 \/ /\ resp.status < 400
                    /\ extract_authorization_code(resp).exc = "none"
                    /\ pc' = "await_token"
                    /\ reqs' = Append(reqs,
                                      Post(TokenUrl, "authorization_code",
                                           extract_authorization_code(resp).code))
                 \/ /\ resp.status < 400
                    /\ extract_authorization_code(resp).exc = "CliError"
                    /\ pc' = "idle"
                    /\ result' = Raised("CliError")
                    /\ reqs' = reqs]_vars

(* The call has ended with CliError at the /authorize response: its last   *)
(* request is the authorize POST.                                          *)
C15_Witness ==
    /\ pc = "idle"
    /\ result = Raised("CliError")
    /\ reqs # <<>>
    /\ reqs[Len(reqs)].url = AuthorizeUrl
    /\ ~reqs[Len(reqs)].allow_redirects

(* C16 (as claimed): the token exchange fails whenever the /token         *)
(* response has a status outside 200..299, a body that is not a JSON       *)
(* object, or no non-empty access_token, and returns the token otherwise.  *)
C16_TokenFailsUnlessValid ==
    call.op = "exchange_code_for_token" =>
        IF \/ call.resp.status \notin 200..299
           \/ call.resp.json # "object"
           \/ call.resp.access_token \in {Absent, None, Str("")}
        THEN ret.exc # "none"
        ELSE ret = [exc |-> "none", token |-> call.resp.access_token]

(* The same with the status test the code makes: status >= 400.            *)
C16_TokenFailsFrom400 ==
    call.op = "exchange_code_for_token" =>
        IF \/ call.resp.status >= 400
           \/ call.resp.json # "object"
           \/ call.resp.access_token \in {Absent, None, Str("")}
        THEN ret.exc # "none"
        ELSE ret = [exc |-> "none", token |-> call.resp.access_token]

(* isEnabled is present and false (or another falsy value).                *)
Disabled(f) == f.isEnabled # Absent /\ ~Truthy(f.isEnabled)

(* The outcome the single-feature endpoint's response stands for.          *)
SingleFeatureOutcome(resp) ==
    IF resp.net # "ok" THEN FetchRaised(resp.net, 1)
    ELSE IF resp.status = 404 THEN Fetched(NoFeature, 1)
    ELSE IF resp.status >= 400 \/ resp.json = "invalid"
            \/ ~_extract_list(resp.payload).ok
    THEN FetchRaised("CliError", 1)
    ELSE IF _extract_list(resp.payload).items = <<>>
    THEN Fetched(NoFeature, 1)
    ELSE IF Disabled(_extract_list(resp.payload).items[1])
    THEN Fetched(NoFeature, 1)
    ELSE Fetched(_extract_list(resp.payload).items[1], 1)

(* C17: get_single_feature issues exactly one GET; 404 gives null, every   *)
(* other status >= 400 an error; a successful response gives the first     *)
(* feature of the normalized envelope, or null when the envelope is empty  *)
(* or that feature's isEnabled is false.                                   *)
C17_SingleFeature ==
    call.op = "get_single_feature" =>
        /\ ret.gets = 1
        /\ ret = SingleFeatureOutcome(call.resp)

(* A successful response whose first feature is disabled: null after one   *)
(* GET.                                                                    *)
C17_Witness ==
    /\ call.op = "get_single_feature"
    /\ call.resp.status = 200
    /\ call.resp.payload.shape = "data_object"
    /\ call.resp.payload.obj.isEnabled = PyFalse
    /\ ret = Fetched(NoFeature, 1)

(* The positions in the list of the features with the path.                *)
Matches(list, feature_path) ==
    {i \in 1..Len(list) :
        list[i].dict /\ list[i].feature = PathValue(feature_path)}

(* C18: with a feature list (an empty one included) get_feature_data       *)
(* makes no request and returns the list's first feature with the path     *)
(* when it is enabled, null when there is none or it is disabled; without  *)
(* a list it is exactly one single-feature GET.                            *)
C18_FeatureDataFromList ==
    call.op = "get_feature_data" =>
        IF call.features_data.given
        THEN LET hits == Matches(call.features_data.list, call.feature_path)
             IN  /\ ret.gets = 0
                 /\ ret.exc = "none"
                 /\ IF hits = {} THEN ret.feature = NoFeature
                    ELSE IF Disabled(call.features_data.list[Min(hits)])
                    THEN ret.feature = NoFeature
                    ELSE ret.feature = call.features_data.list[Min(hits)]
        ELSE /\ ret.gets = 1
             /\ ret = SingleFeatureOutcome(call.resp)

(* A list whose second element is the enabled feature with the path: it    *)
(* is returned without a request.                                          *)
C18_Witness ==
    /\ call.op = "get_feature_data"
    /\ call.features_data.given
    /\ Matches(call.features_data.list, call.feature_path) = {2}
    /\ ret.gets = 0
    /\ ret.feature = call.features_data.list[2]
    /\ ret.feature.isEnabled = PyTrue

(* The path contains ".temperature": the word, not at the start.           *)
HasDotTemperature(path) == \E i \in 2..Len(path) : path[i] = "temperature"
HasConsumption(path) ==
    \/ \E i \in 1..Len(path) : path[i] = "consumption"
    \/ \E i \in 1..(Len(path) - 1) :
           path[i] = "heat" /\ path[i + 1] = "production"
HasBurnersAndStatistics(path) ==
    /\ \E i \in 1..Len(path) : path[i] = "burners"
    /\ \E i \in 1..Len(path) : path[i] = "statistics"

(* C19: for every path and feature exactly one extractor is applied, the   *)
(* earliest that matches of: '.temperature' -> temperature; 'consumption'  *)
(* or 'heat.production' -> consumption, which returns the properties       *)
(* unchanged; 'burners' and 'statistics' -> burner statistics; otherwise   *)
(* raw properties.                                                         *)
C19_ExtractorPriority ==
    call.op = "extract_feature_value" /\ call.feature # NoFeature =>
        LET path == call.feature_path
        IN  /\ ret.extractor =
                   IF HasDotTemperature(path) THEN "extract_temperature"
                   ELSE IF HasConsumption(path) THEN "extract_consumption"
                   ELSE IF HasBurnersAndStatistics(path)
                   THEN "extract_burner_statistics"
                   ELSE "extract_raw_properties"
            /\ /\ ret.extractor \in {"extract_consumption",
                                     "extract_raw_properties"}
               /\ call.feature.properties \notin {Absent, None}
               => ret.value = call.feature.properties

(* A path with '.temperature', 'consumption' and 'burners': temperature.   *)
C19_Witness ==
    /\ call.op = "extract_feature_value"
    /\ call.feature # NoFeature
    /\ HasDotTemperature(call.feature_path)
    /\ HasConsumption(call.feature_path)
    /\ \E i \in 1..Len(call.feature_path) : call.feature_path[i] = "burners"
    /\ ret.extractor = "extract_temperature"

(* C20 (as claimed): extract_feature_value(path, None) is null and no      *)
(* extractor is called, and extraction against a feature whose isEnabled   *)
(* is false is null as well.                                               *)
C20_DisabledExtractsToNull ==
    call.op = "extract_feature_value" =>
        /\ call.feature = NoFeature => ret = Extracted("none", None)
        /\ call.feature # NoFeature /\ Disabled(call.feature) =>
               ret.value = None

(* The feature get_feature_value looks up is in the list, or is the        *)
(* answer of the single-feature GET, and is disabled.                      *)
LooksUpDisabled ==
    IF call.features_data.given
    THEN LET hits == Matches(call.features_data.list, call.feature_path)
         IN  hits # {} /\ Disabled(call.features_data.list[Min(hits)])
    ELSE /\ call.resp.net = "ok"
         /\ call.resp.status = 200
         /\ call.resp.json = "valid"
         /\ _extract_list(call.resp.payload).ok
         /\ _extract_list(call.resp.payload).items # <<>>
         /\ Disabled(_extract_list(call.resp.payload).items[1])

(* C20 (amended): extract_feature_value(path, None) is null and no         *)
(* extractor is called; get_feature_value for a feature whose isEnabled    *)
(* is false is null, without an exception.                                 *)
C20_AbsentOrFetchedDisabledIsNull ==
    /\ call.op = "extract_feature_value" /\ call.feature = NoFeature =>
           ret = Extracted("none", None)
    /\ call.op = "get_feature_value" /\ LooksUpDisabled =>
           /\ ret.exc = "none"
           /\ ret.value = None

(* get_feature_value has looked up a disabled feature that has properties  *)
(* in the list it was given.                                               *)
C20_Witness ==
    /\ call.op = "get_feature_value"
    /\ call.features_data.given
    /\ LooksUpDisabled
    /\ call.feature_path = <<"heating", "consumption">>
    /\ call.features_data.list[1].properties = EmptyProps
    /\ ret.value = None


-----------------------------------------------------------------------------
(* The number a numeric string denotes.                                    *)
IsNumericString(x) == x.t = "str" /\ \E k \in 0..MaxNumber : Decimal(k) = x.s
NumberOf(x) == CHOOSE k \in 0..MaxNumber : Decimal(k) = x.s

(* The one coercion rule: a number stays, a numeric string is parsed,      *)
(* anything else is null.                                                  *)
CoercionRule(x) ==
    IF x.t \in {"int", "float"} THEN Float(x.n)
    ELSE IF IsNumericString(x) THEN Float(NumberOf(x))
    ELSE None

(* C21: in every supported shape of properties.temperature and of          *)
(* properties.value, extract_temperature returns x as a number when x is   *)
(* an integer or float, the parsed number when x is a numeric string, and  *)
(* null without an exception when x is non-numeric or missing.  (A JSON    *)
(* boolean is left out of the statement.)                                  *)
C21_TemperatureOneRule ==
    (call.op = "extract_temperature" /\ call.x.t # "bool") =>
        /\ ret.exc = "none"
        /\ ret.value = CoercionRule(call.x)

(* The shapes in which the rule does hold: a bare properties.temperature   *)
(* and the innermost value of each nesting.                                *)
C21_RuleWhereCoerced ==
    (/\ call.op = "extract_temperature"
     /\ call.x.t # "bool"
     /\ call.shape \in {"temperature", "temperature.value.value",
                        "value.value"}) =>
        /\ ret.exc = "none"
        /\ ret.value = CoercionRule(call.x)

-----------------------------------------------------------------------------
SnapshotFields ==
    {"gas_consumption_m3_today", "gas_consumption_m3_yesterday",
     "betriebsstunden", "starts", "supply_temp", "outside_temp", "fetched_at"}

(* The value a field takes from its own feature: the one in the feature's  *)
(* properties when the feature is there, enabled and holds it, else null.  *)
FieldFrom(kind, value) == IF kind = "usable" THEN value ELSE None

(* C22: get_heating_values issues exactly one request, the features GET,   *)
(* and for every combination of the four features being present, absent   *)
(* or disabled it returns, without raising, a snapshot with the six value  *)
(* fields and fetched_at, each value field null exactly as its own feature *)
(* is absent, disabled or without a usable value.                          *)
C22_SnapshotFromOneRequest ==
    call.op = "get_heating_values" =>
        /\ ret.exc = "none"
        /\ ret.returned
        /\ ret.gets = 1
        /\ DOMAIN ret.snapshot = SnapshotFields
        /\ ret.snapshot.fetched_at = call.t
        /\ ret.snapshot.gas_consumption_m3_today =
               FieldFrom(call.slots[1], Float(5))
        /\ ret.snapshot.gas_consumption_m3_yesterday =
               FieldFrom(call.slots[1], Float(8))
        /\ ret.snapshot.betriebsstunden = FieldFrom(call.slots[2], Num(12))
        /\ ret.snapshot.starts = FieldFrom(call.slots[2], Num(3))
        /\ ret.snapshot.supply_temp = FieldFrom(call.slots[3], Float(45))
        /\ ret.snapshot.outside_temp = FieldFrom(call.slots[4], Float(3))

(* A call with the consumption feature absent, the burner statistics       *)
(* there, the supply temperature disabled and the outside temperature      *)
(* without a value has returned.                                           *)
C22_Witness ==
    /\ call.op = "get_heating_values"
    /\ call.slots = <<"absent", "usable", "disabled", "empty_properties">>
    /\ ret.returned
    /\ ret.snapshot.betriebsstunden = Num(12)
    /\ ret.snapshot.gas_consumption_m3_today = None
    /\ ret.snapshot.supply_temp = None

-----------------------------------------------------------------------------
(* The array under properties.day.value, or <<>> when there is none.       *)
DayValues(props) ==
    IF props.t # "props" THEN <<>>
    ELSE IF props.day.t # "dict" THEN <<>>
    ELSE IF props.day.value.t # "list" THEN <<>>
    ELSE props.day.value.items

(* An element of the array as the number it is; null for an element that   *)
(* is not a number.                                                        *)
NumberAt(a, i) ==
    IF i > Len(a) THEN None
    ELSE IF a[i].t \in {"int", "float"} THEN Float(a[i].n)
    ELSE None

(* C23: the pair (today, yesterday) is (v0, v1) of properties.day.value; a *)
(* one-element array gives (v0, null); an empty array, a missing day key,  *)
(* a value that is not a list and properties that are not an object give   *)
(* (null, null); elements from index 2 on have no influence.               *)
C23_GasConsumptionPair ==
    call.op = "_extract_gas_consumption_m3_pair" =>
        /\ ret.exc = "none"
        /\ ret.pair = Pair(NumberAt(DayValues(call.consumption_props), 1),
                           NumberAt(DayValues(call.consumption_props), 2))

(* The pair of an array of three numbers whose third differs from the      *)
(* second has been extracted.                                              *)
C23_Witness ==
    /\ call.op = "_extract_gas_consumption_m3_pair"
    /\ DayValues(call.consumption_props) = <<Float(5), Num(8), Float(5)>>
    /\ ret.pair = Pair(Float(5), Float(8))

-----------------------------------------------------------------------------
(* C24: every file that save_token_cache places at the cache path has mode *)
(* 0600 from the moment it is visible there.                               *)
C24_CacheFileOwnerOnly ==
    dir["cache"] # NoInode => inodes[dir["cache"]].mode = "0600"

-----------------------------------------------------------------------------
HoldsSecret(text) == \E i \in 1..Len(text) : text[i].kind = "secret"

(* C25: the part of a response body that an error includes holds no value  *)
(* of access_token, refresh_token, id_token or code in clear: two bodies   *)
(* that differ only in those values give the same error text.              *)
C25_ErrorBodyRedacted ==
    call.op = "error_body" =>
        /\ ~HoldsSecret(ret.body)
        /\ ret.body = ret.other

(* The values left in clear are those of a JSON-style token whose closing  *)
(* quote the cut has removed.                                              *)
C25_LeftInClear ==
    call.op = "error_body" =>
        \A i \in 1..Len(ret.body) :
            ret.body[i].kind = "secret" =>
                /\ i = Len(ret.body)
                /\ ret.body[i - 1].kind = "json_key"
                /\ TextLen(call.text) > call.limit

-----------------------------------------------------------------------------
(* What the handler's code promises for one invocation.                    *)
HandlerOutcome(j) ==
    LET job == jobs[j]
        unset == job.user_id = <<>> \/ job.user_id = <<"SET_ME">>
    IN  job.pc # "idle" =>
            /\ job.max_retries >= 1
            /\ job.tried <= job.max_retries
            /\ job.sleeps = (IF job.pc \in {"sleeping", "attempt"}
                                \/ job.tried = 0
                             THEN job.tried ELSE job.tried - 1)
            /\ job.pc = "sleeping" => job.tried < job.max_retries
            /\ job.statusCode = 200 =>
                   /\ job.alerts = 0
                   /\ job.body \in {"submission_id", "skipped"}
            /\ (JobFinished(j) /\ job.tried >= 1 /\ job.statusCode # 200) =>
                   /\ job.tried = job.max_retries
                   /\ job.statusCode = 500
                   /\ job.alerts = 1
            /\ unset =>
                   /\ job.pc = "returned"
                   /\ job.statusCode = 500
                   /\ job.alerts = 1
                   /\ job.tried = 0

(* C26: an invocation of lambda_handler makes at most max_retries (>= 1)   *)
(* attempts, sleeps only between two attempts, returns 200 without an      *)
(* alert at the first attempt that stores or skips, publishes one alert    *)
(* and returns 500 when every attempt has failed, and with an unset user   *)
(* id returns 500 with one alert and no attempt.                           *)
C26_AutoRetrievalOutcome == \A j \in Jobs : HandlerOutcome(j)

(* The same, for the invocations the runtime has not ended.                *)
C26_UnlessTimedOut ==
    \A j \in Jobs : jobs[j].pc # "timed_out" => HandlerOutcome(j)

(* An invocation with the default configuration whose attempts all fail    *)
(* is ended while it sleeps, with no alert and no status.                  *)
C26_DefaultsTimeOut ==
    \E j \in Jobs :
        /\ jobs[j].pc = "timed_out"
        /\ jobs[j].max_retries = DefaultMaxRetries
        /\ jobs[j].retry_delay_seconds = DefaultRetryDelaySeconds
        /\ jobs[j].tried < jobs[j].max_retries
        /\ jobs[j].sleeps = jobs[j].tried
        /\ jobs[j].alerts = 0

-----------------------------------------------------------------------------
(* C27: the table never holds two submissions of the user with the same    *)
(* datum_iso, and a call of store_viessmann_submission that was skipped    *)
(* as a duplicate has put no item.                                         *)
C27_OneSubmissionPerDay ==
    /\ \A a \in table, b \in table : a.datum_iso = b.datum_iso => a = b
    /\ \A j \in Jobs : jobs[j].body = "skipped" => jobs[j].puts = 0

(* The table holds a submission that the duplicate check for its own day   *)
(* does not find: the query has read an older item only.                   *)
C27_DuplicateMissed ==
    \E i \in table : DuplicateQuery(table, i.datum_iso) = {}

-----------------------------------------------------------------------------
IdsOf(rec) == {rec.installation_id, rec.gateway_serial, rec.device_id}

(* C28: from an absent or empty cache, every record in the cache file      *)
(* holds all three of installation_id, gateway_serial and device_id or     *)
(* none of them.                                                           *)
C28_IdsAllOrNone ==
    file.kind = "json_object" =>
        \/ Absent \notin IdsOf(file.rec)
        \/ IdsOf(file.rec) = {Absent}

(* A refresh has rewritten a record that held the three ids.               *)
C28_RefreshedWithIds ==
    /\ tok.returned
    /\ tok.path = "refresh"
    /\ tok.writes = 1
    /\ file.kind = "json_object"
    /\ Absent \notin IdsOf(file.rec)
    /\ \A id \in IdsOf(file.rec) : Truthy(id)

-----------------------------------------------------------------------------
(* C29: the record that get_valid_token has written after a refresh or a   *)
(* full authorization is fresh at that time: now < expires_at - 300.       *)
C29_PersistedRecordFresh ==
    (tok.returned /\ tok.path \in {"refresh", "oauth"} /\ tok.writes >= 1) =>
        /\ file.kind = "json_object"
        /\ file.rec.expires_at.t = "int"
        /\ TokenStillValid(gvt_now, file.rec.expires_at.n)

(* The same for the full authorization alone, where a response without     *)
(* expires_in gets the default of one hour.                                *)
C29_AuthorizedRecordFresh ==
    (tok.returned /\ tok.path = "oauth" /\ tok.writes >= 1) =>
        /\ file.kind = "json_object"
        /\ file.rec.expires_at.t = "int"
        /\ TokenStillValid(gvt_now, file.rec.expires_at.n)

(* A refresh whose response had no expires_in has written a record that    *)
(* keeps the expiry of the record it replaced.                             *)
C29_RefreshedStale ==
    /\ tok.returned
    /\ tok.path = "refresh"
    /\ tok.writes >= 1
    /\ file.kind = "json_object"
    /\ file.rec.expires_at = cached.rec.expires_at
    /\ ~TokenStillValid(gvt_now, file.rec.expires_at.n)

-----------------------------------------------------------------------------
(* The method that was configured: the option, else the environment, else  *)
(* S256; read without regard to case and surrounding white space.          *)
ConfiguredMethod ==
    Upper(Strip(IF call.pkce_method_arg # <<>> THEN call.pkce_method_arg
                ELSE IF call.pkce_method_env # <<>> THEN call.pkce_method_env
                ELSE <<"S256">>))

(* The challenge that belongs to a verifier under a method.                *)
ChallengeOf(method, verifier) ==
    IF method = <<"plain">> THEN verifier
    ELSE <<"base64url(sha256(">> \o verifier \o <<"))">>

(* C30: in a full authorization-code flow the code_challenge_method sent   *)
(* to /authorize is the configured method, and the code_verifier sent to   *)
(* /token is the verifier from which the code_challenge sent to /authorize *)
(* was derived: equal to it for plain, its S256 image otherwise.           *)
C30_PkceVerifierMatchesChallenge ==
    call.op = "authorization_code_flow" =>
        /\ \A i \in 1..Len(ret.authorize) :
               /\ ret.authorize[i].code_challenge_method
                      \in {<<"S256">>, <<"plain">>}
               /\ Upper(ret.authorize[i].code_challenge_method)
                      = ConfiguredMethod
        /\ \A i \in 1..Len(ret.token) :
               /\ Len(ret.authorize) = 1
               /\ ret.authorize[1].code_challenge
                      = ChallengeOf(ret.authorize[1].code_challenge_method,
                                    ret.token[i].code_verifier)

(* A flow with a generated verifier and S256 has sent both requests.       *)
C30_Witness ==
    /\ call.op = "authorization_code_flow"
    /\ Len(ret.authorize) = 1
    /\ Len(ret.token) = 1
    /\ ret.exc = "none"
    /\ ret.authorize[1].code_challenge_method = <<"S256">>
    /\ ret.token[1].code_verifier = call.generated
    /\ ret.authorize[1].code_challenge # ret.token[1].code_verifier

====
